---------------------------- MODULE Spec2Model ----------------------------
(***************************************************************************)
(* A model of the real-time AI conversation layer of veweb-demo: the       *)
(* conversation state machine, the TTS queue, the streaming message        *)
(* assembler, the VAD, the barge-in detector and the transport channel.    *)
(*                                                                         *)
(* The program is single threaded: one handler (a public method, a timer   *)
(* callback, a socket or media event) runs to completion, followed by the  *)
(* promise continuations it made runnable.  Each action below is one such  *)
(* task.  Handlers are operators from a world record (the fields of all    *)
(* objects) to a world record, so that a handler calling another one is    *)
(* operator application.  The field "calls" of the world collects, in      *)
(* order, the outward calls made during the task; the variable ev keeps    *)
(* the operation of the last task, its arguments and those calls.          *)
(***************************************************************************)
EXTENDS Integers, Sequences, FiniteSets, TLC

VARIABLES
    sm,        \* ConversationStateMachine: currentState, listeners, stateHistory
    smTimers,  \* number of pending setTimeout(..., 100) callbacks of interrupt()
    tts,       \* TTSService: the fields of the object
    synth,     \* the synthesizeToAudio promises, by submission number: [text, st]
    loops,     \* the items awaited by the live activations of processQueue
    media,     \* the audio elements, by item: none, starting, playing, aborting, done
    ttsLog,    \* history of the TTS: promoted, played, stale, late, stopped
    asm,       \* StreamingMessageHandler: messages
    asmLog,    \* history of the assembler: the chunks of the running turn
    barge,     \* BargeInService: the fields of the object
    vad,       \* VADService: silenceTimer, accumulatedText, onAutoSend, config
    vadTimer,  \* whether the setTimeout of the VAD's silence timer is pending
    vadLog,    \* history of the VAD: the final transcripts buffered since the last emptying
    ws,        \* RealtimeAIServiceEnhanced: the fields of the object
    net,       \* the sockets made by the transport and its pending timers
    wsLog,     \* history of the transport: reconnect attempts since the last open
    voice,     \* VoiceRecognitionService: the fields of the object
    speech,    \* the SpeechRecognition object and the pending restart timers
    hf,        \* HandsFreeService: the fields of the object
    hfTimer,   \* number of pending setTimeout callbacks of onAIFinishedSpeaking()
    ctl,       \* AIConversationController: isRecording, config
    ev         \* the last task: [op, arg, pre, calls]

vars == <<sm, smTimers, tts, synth, loops, media, ttsLog, asm, asmLog, barge,
          vad, vadTimer, vadLog, ws, net, wsLog, voice, speech, hf, hfTimer, ctl, ev>>

(***************************************************************************)
(* Bounds of the model.                                                    *)
(***************************************************************************)
MaxSmOps == 5
MaxListeners == 2
MaxItems == 3
MaxMessages == 2
MaxContent == 4
MaxBargeItems == 1
MaxAsmItems == 2
MaxBuffer == 4
MaxAttempts == 12
MaxStale == 1
MaxLeaked == 1
MaxRestarts == 1
MaxCtlSteps == 6
MaxLongRun == 12

(***************************************************************************)
(* The world record and the frame of a task.                               *)
(***************************************************************************)
World ==
    [sm |-> sm, smTimers |-> smTimers,
     tts |-> tts, synth |-> synth, loops |-> loops, media |-> media, ttsLog |-> ttsLog,
     asm |-> asm, asmLog |-> asmLog, barge |-> barge,
     vad |-> vad, vadTimer |-> vadTimer, vadLog |-> vadLog,
     ws |-> ws, net |-> net, wsLog |-> wsLog,
     voice |-> voice, speech |-> speech, hf |-> hf, hfTimer |-> hfTimer, ctl |-> ctl,
     calls |-> <<>>]

Call(w, c) == [w EXCEPT !.calls = Append(@, c)]

Commit(w, op, arg, pre) ==
    /\ sm' = w.sm
    /\ smTimers' = w.smTimers
    /\ tts' = w.tts
    /\ synth' = w.synth
    /\ loops' = w.loops
    /\ media' = w.media
    /\ ttsLog' = w.ttsLog
    /\ asm' = w.asm
    /\ asmLog' = w.asmLog
    /\ barge' = w.barge
    /\ vad' = w.vad
    /\ vadTimer' = w.vadTimer
    /\ vadLog' = w.vadLog
    /\ ws' = w.ws
    /\ net' = w.net
    /\ wsLog' = w.wsLog
    /\ voice' = w.voice
    /\ speech' = w.speech
    /\ hf' = w.hf
    /\ hfTimer' = w.hfTimer
    /\ ctl' = IF w.ctl.constructed THEN [w.ctl EXCEPT !.steps = @ + 1] ELSE w.ctl
    /\ ev' = [op |-> op, arg |-> arg, pre |-> pre, calls |-> w.calls]

(***************************************************************************)
(* ConversationStateMachine (state-machine.ts)                             *)
(***************************************************************************)
IDLE == "idle"
LISTENING == "listening"
THINKING == "thinking"
SPEAKING == "speaking"
INTERRUPTED == "interrupted"
ConversationState == {IDLE, LISTENING, THINKING, SPEAKING, INTERRUPTED}

MAX_HISTORY == 10

\* Listeners a caller may register; "bad" is a listener that throws.
ListenerIds == {"ok", "bad"}

\* entered is the history of the model: every state entered, oldest first.
SmInit ==
    [currentState |-> IDLE, listeners |-> <<>>, stateHistory |-> <<IDLE>>, ops |-> 0,
     entered |-> <<IDLE>>]

\* The listener the HandsFreeService registers in its constructor.
RECURSIVE handleStateChange(_, _, _)

\* One listener invoked inside the try/catch of notifyListeners.
InvokeListener(w, l, newState, prevState) ==
    LET w1 == Call(w, <<"listener", l, newState, prevState>>)
    IN  IF l = "bad" THEN Call(w1, <<"console.error", l>>)
        ELSE IF l = "handsFree" THEN handleStateChange(w1, newState, prevState)
        ELSE w1

\* Mutant: forEach without the try/catch: a listener that throws ends it.
RECURSIVE NotifyFrom_NoCatch(_, _, _, _)
NotifyFrom_NoCatch(w, i, newState, prevState) ==
    IF i > Len(w.sm.listeners) THEN w
    ELSE IF w.sm.listeners[i] = "bad"
    THEN Call(w, <<"listener", "bad", newState, prevState>>)
    ELSE NotifyFrom_NoCatch(InvokeListener(w, w.sm.listeners[i], newState, prevState),
                            i + 1, newState, prevState)

RECURSIVE NotifyFrom(_, _, _, _)
NotifyFrom(w, i, newState, prevState) ==
    IF i > Len(w.sm.listeners) THEN w
    ELSE NotifyFrom(InvokeListener(w, w.sm.listeners[i], newState, prevState),
                    i + 1, newState, prevState)

notifyListeners(w, newState, prevState) == NotifyFrom(w, 1, newState, prevState)

\* Mutant: transition() without the same-state return.
transition_NoGuard(w, newState) ==
    LET prevState == w.sm.currentState
        pushed == Append(w.sm.stateHistory, newState)
        hist == IF Len(pushed) > MAX_HISTORY THEN Tail(pushed) ELSE pushed
        w1 == [w EXCEPT !.sm.currentState = newState, !.sm.stateHistory = hist,
                        !.sm.entered = Append(@, newState)]
    IN  notifyListeners(w1, newState, prevState)

\* Mutant: transition() that never drops the oldest entry of the history.
transition_NoShift(w, newState) ==
    IF w.sm.currentState = newState THEN w
    ELSE LET prevState == w.sm.currentState
             w1 == [w EXCEPT !.sm.currentState = newState,
                             !.sm.stateHistory = Append(@, newState),
                             !.sm.entered = Append(@, newState)]
         IN  notifyListeners(w1, newState, prevState)

transition(w, newState) ==
    IF w.sm.currentState = newState THEN w
    ELSE LET prevState == w.sm.currentState
             pushed == Append(w.sm.stateHistory, newState)
             hist == IF Len(pushed) > MAX_HISTORY THEN Tail(pushed) ELSE pushed
             w1 == [w EXCEPT !.sm.currentState = newState, !.sm.stateHistory = hist,
                             !.sm.entered = Append(@, newState)]
         IN  notifyListeners(w1, newState, prevState)

startListening(w) == transition(w, LISTENING)
startThinking(w) == transition(w, THINKING)
startSpeaking(w) == transition(w, SPEAKING)
stop(w) == transition(w, IDLE)

\* Mutant: interrupt() without the check of the Speaking state.
interrupt_AnyState(w) ==
    [transition(w, INTERRUPTED) EXCEPT !.smTimers = @ + 1]

interrupt(w) ==
    IF w.sm.currentState = SPEAKING
    THEN LET w1 == transition(w, INTERRUPTED)
         IN  [w1 EXCEPT !.smTimers = @ + 1]
    ELSE w

\* The callback of the setTimeout of interrupt().
interruptTimeout(w) == transition([w EXCEPT !.smTimers = @ - 1], LISTENING)

addListener(w, l) == [w EXCEPT !.sm.listeners = Append(@, l)]

RECURSIVE IndexOf(_, _, _)
IndexOf(s, x, i) ==
    IF i > Len(s) THEN 0 ELSE IF s[i] = x THEN i ELSE IndexOf(s, x, i + 1)

RemoveAt(s, i) == [j \in 1..(Len(s) - 1) |-> IF j < i THEN s[j] ELSE s[j + 1]]

removeListener(w, l) ==
    LET index == IndexOf(w.sm.listeners, l, 1)
    IN  IF index > 0 THEN [w EXCEPT !.sm.listeners = RemoveAt(@, index)] ELSE w

\* What a task on the state machine leaves in ev.pre.
SmPre ==
    [state |-> sm.currentState, history |-> sm.stateHistory,
     listeners |-> sm.listeners, timers |-> smTimers]

SmOp(w) == [w EXCEPT !.sm.ops = @ + 1]

SmTransition ==
    /\ sm.ops < MaxSmOps
    /\ \E s \in ConversationState :
           Commit(SmOp(transition(World, s)), "transition", <<s>>, SmPre)

SmStartListening ==
    /\ sm.ops < MaxSmOps
    /\ Commit(SmOp(startListening(World)), "startListening", <<LISTENING>>, SmPre)

SmStartThinking ==
    /\ sm.ops < MaxSmOps
    /\ Commit(SmOp(startThinking(World)), "startThinking", <<THINKING>>, SmPre)

SmStartSpeaking ==
    /\ sm.ops < MaxSmOps
    /\ Commit(SmOp(startSpeaking(World)), "startSpeaking", <<SPEAKING>>, SmPre)

SmStop ==
    /\ sm.ops < MaxSmOps
    /\ Commit(SmOp(stop(World)), "stop", <<IDLE>>, SmPre)

SmInterrupt ==
    /\ sm.ops < MaxSmOps
    /\ Commit(SmOp(interrupt(World)), "interrupt", <<>>, SmPre)

SmInterruptTimeout ==
    /\ smTimers > 0
    /\ Commit(interruptTimeout(World), "interruptTimeout", <<>>, SmPre)

\* A long run of transitions, over three of the states.
LongRunStates == {IDLE, LISTENING, THINKING}

SmLongRunTransition ==
    /\ sm.ops < MaxLongRun
    /\ \E s \in LongRunStates :
           Commit(SmOp(transition(World, s)), "transition", <<s>>, SmPre)

SmAddListener ==
    /\ Len(sm.listeners) < MaxListeners
    /\ \E l \in ListenerIds :
           Commit(addListener(World, l), "addListener", <<l>>, SmPre)

SmRemoveListener ==
    /\ \E l \in ListenerIds :
           /\ IndexOf(sm.listeners, l, 1) > 0
           /\ Commit(removeListener(World, l), "removeListener", <<l>>, SmPre)

(***************************************************************************)
(* Text: a string is a sequence of characters.                             *)
(***************************************************************************)
IsSpace(c) == c = " "

RECURSIVE TrimStart(_)
TrimStart(t) == IF t # <<>> /\ IsSpace(Head(t)) THEN TrimStart(Tail(t)) ELSE t

RECURSIVE TrimEnd(_)
TrimEnd(t) ==
    IF t # <<>> /\ IsSpace(t[Len(t)]) THEN TrimEnd(SubSeq(t, 1, Len(t) - 1)) ELSE t

\* String.prototype.trim
Trim(t) == TrimEnd(TrimStart(t))

(***************************************************************************)
(* The callbacks the StreamingMessageHandler is constructed with.          *)
(***************************************************************************)
onMessagesUpdate(w, snapshot) == Call(w, <<"onMessagesUpdate", snapshot>>)

\* The callback the controller constructs the handler with.
RECURSIVE handleAISpeakingChange(_, _)

onAISpeakingChange(w, speaking) ==
    LET w1 == Call(w, <<"onAISpeakingChange", speaking>>)
    IN  IF w.asm.onAISpeakingChange = "controller"
        THEN handleAISpeakingChange(w1, speaking) ELSE w1

(***************************************************************************)
(* TTSService (tts.ts)                                                     *)
(***************************************************************************)
TtsInit ==
    [audioQueue |-> <<>>, synthesisQueue |-> <<>>, isProcessingQueue |-> FALSE,
     isPlaying |-> FALSE, onStatusChange |-> "none", currentAudio |-> 0]

\* promoted: the items in the order they were pushed on audioQueue;
\* played: the items in the order playNext started them;
\* stale: the items submitted before the latest stop();
\* late: the items of stale started after that stop(); stopped: stop() was called;
\* settled: the items in the order their synthesis ended.
TtsLogInit ==
    [promoted |-> <<>>, played |-> <<>>, settled |-> <<>>,
     stale |-> {}, late |-> {}, stopped |-> FALSE]

\* The callbacks play() is given: "none" (undefined); "probe", a callback that
\* only records its argument; "noop", the () => {} of queueChunkTTS;
\* "speaking", the (playing) => this.onAISpeakingChange(playing) of playTTS.
TtsCallbacks == {"none", "probe"}

\* if (this.onStatusChange) this.onStatusChange(playing)
onStatusChange(w, playing) ==
    IF w.tts.onStatusChange = "none" THEN w
    ELSE LET w1 == Call(w, <<"onStatusChange", w.tts.onStatusChange, playing>>)
         IN  IF w.tts.onStatusChange = "speaking"
             THEN onAISpeakingChange(w1, playing) ELSE w1

playNext(w) ==
    IF w.tts.audioQueue = <<>>
    THEN onStatusChange([w EXCEPT !.tts.isPlaying = FALSE], FALSE)
    ELSE LET a == Head(w.tts.audioQueue)
         IN  [w EXCEPT !.tts.currentAudio = a,
                       !.tts.audioQueue = Tail(@),
                       !.media[a] = "starting",
                       !.ttsLog.played = Append(@, a),
                       !.ttsLog.late = @ \cup ({a} \cap w.ttsLog.stale)]

\* Which entry of synthesisQueue the loop takes: shift() takes the first.
ShiftIndex_Last(q) == Len(q)

ShiftIndex(q) == 1

\* while (this.synthesisQueue.length > 0) { await this.synthesisQueue.shift() ...
\* and, once the queue is empty, the finally block.  The activation that was
\* awaiting `from` (0: a new activation) goes on to await the item it shifts.
LoopAwaitNext(w, from) ==
    IF w.tts.synthesisQueue # <<>>
    THEN LET k == ShiftIndex(w.tts.synthesisQueue)
             i == w.tts.synthesisQueue[k]
         IN  [w EXCEPT !.tts.synthesisQueue = RemoveAt(@, k),
                       !.loops = (@ \ {from}) \cup {i}]
    ELSE [w EXCEPT !.tts.isProcessingQueue = FALSE, !.loops = @ \ {from}]

\* The activation awaiting item i goes on once i's promise is settled.
LoopResume(w, i) ==
    IF w.synth[i].st = "fail"
    THEN \* the await throws: finally, and the activation ends
         [w EXCEPT !.tts.isProcessingQueue = FALSE, !.loops = @ \ {i}]
    ELSE LET w1 == [w EXCEPT !.tts.audioQueue = Append(@, i),
                             !.ttsLog.promoted = Append(@, i)]
             w2 == IF ~w1.tts.isPlaying
                   THEN playNext(onStatusChange([w1 EXCEPT !.tts.isPlaying = TRUE], TRUE))
                   ELSE w1
         IN  LoopAwaitNext(w2, i)

Runnable(w) == {i \in w.loops : w.synth[i].st # "pending"}

\* The promise continuations that run before the task ends.
RECURSIVE RunMicrotasks(_)
RunMicrotasks(w) ==
    IF Runnable(w) = {} THEN w
    ELSE RunMicrotasks(LoopResume(w, CHOOSE i \in Runnable(w) : TRUE))

processQueue(w) ==
    IF w.tts.isProcessingQueue THEN w
    ELSE LoopAwaitNext([w EXCEPT !.tts.isProcessingQueue = TRUE], 0)

play(w, text, callback) ==
    IF Trim(text) = <<>> THEN w
    ELSE LET i == Len(w.synth) + 1
             w1 == IF callback # "none"
                   THEN [w EXCEPT !.tts.onStatusChange = callback] ELSE w
             w2 == [w1 EXCEPT !.synth = Append(@, [text |-> text, st |-> "pending"]),
                              !.media = Append(@, "none"),
                              !.tts.synthesisQueue = Append(@, i)]
         IN  IF ~w2.tts.isProcessingQueue THEN processQueue(w2) ELSE w2

\* currentAudio.pause(): a play() promise still pending will reject (AbortError).
Pause(w, a) ==
    [w EXCEPT !.media[a] = IF @ = "starting" THEN "aborting"
                           ELSE IF @ = "playing" THEN "done" ELSE @]

ttsStop(w) ==
    LET w1 == IF w.tts.currentAudio # 0
              THEN [Pause(w, w.tts.currentAudio) EXCEPT !.tts.currentAudio = 0]
              ELSE w
        w2 == [w1 EXCEPT !.tts.synthesisQueue = <<>>,
                         !.tts.audioQueue = <<>>,
                         !.tts.isPlaying = FALSE,
                         !.tts.isProcessingQueue = FALSE,
                         !.ttsLog.stale = 1..Len(w.synth),
                         !.ttsLog.late = {},
                         !.ttsLog.stopped = TRUE]
    IN  onStatusChange(w2, FALSE)

\* currentAudio.onended and currentAudio.onerror
onAudioDone(w) ==
    playNext(IF w.tts.currentAudio # 0 THEN [w EXCEPT !.tts.currentAudio = 0] ELSE w)

\* catch (err) { this.playNext() } around await currentAudio.play()
onPlayFailed(w) == playNext(w)

isSpeaking(w) == w.tts.isPlaying

TtsPre ==
    [isPlaying |-> tts.isPlaying, waiting |-> Len(tts.synthesisQueue) + Cardinality(loops),
     queued |-> Len(tts.audioQueue), current |-> tts.currentAudio]

Texts == {<<"a">>, <<" ">>}

TtsPlayUpTo(n) ==
    /\ Len(synth) < n
    /\ \E text \in Texts, cb \in TtsCallbacks :
           Commit(RunMicrotasks(play(World, text, cb)), "play", <<text, cb>>, TtsPre)

TtsPlay == TtsPlayUpTo(MaxItems)

TtsStop ==
    /\ Commit(RunMicrotasks(ttsStop(World)), "ttsStop", <<>>, TtsPre)

\* The fetch of item i ends: the promise resolves to an audio element or rejects.
TtsSynthesisDone ==
    \E i \in 1..Len(synth), st \in {"ok", "fail"} :
        /\ synth[i].st = "pending"
        /\ Commit(RunMicrotasks([World EXCEPT !.synth[i].st = st,
                                              !.ttsLog.settled = Append(@, i)]),
                  "synthesisDone", <<i, st>>, TtsPre)

\* The play() promise of element i resolves: the element is audible.
TtsPlayStarted ==
    \E i \in 1..Len(media) :
        /\ media[i] = "starting"
        /\ Commit([World EXCEPT !.media[i] = "playing"], "playStarted", <<i>>, TtsPre)

\* The play() promise of element i rejects (not allowed, or aborted by pause()).
TtsPlayRejected ==
    \E i \in 1..Len(media) :
        /\ media[i] \in {"starting", "aborting"}
        /\ Commit(RunMicrotasks(onPlayFailed([World EXCEPT !.media[i] = "done"])),
                  "playRejected", <<i>>, TtsPre)

\* Element i plays to its end.
TtsAudioEnded ==
    \E i \in 1..Len(media) :
        /\ media[i] = "playing"
        /\ Commit(RunMicrotasks(onAudioDone([World EXCEPT !.media[i] = "done"])),
                  "audioEnded", <<i>>, TtsPre)

\* Element i fails: the error event, and the rejection of a pending play().
TtsAudioError ==
    \E i \in 1..Len(media) :
        /\ media[i] \in {"starting", "playing"}
        /\ LET w1 == onAudioDone([World EXCEPT !.media[i] = "done"])
               w2 == IF media[i] = "starting" THEN onPlayFailed(w1) ELSE w1
           IN  Commit(RunMicrotasks(w2), "audioError", <<i>>, TtsPre)

(***************************************************************************)
(* StreamingMessageHandler (streaming-handler.ts)                          *)
(***************************************************************************)
AsmInit == [messages |-> <<>>, onAISpeakingChange |-> "probe"]

\* turn: the contents of the chunks handled since the last event that was
\* not a chunk; base: the number of messages when the first of them arrived.
AsmLogInit == [turn |-> <<>>, base |-> 0]

Message(role, content, streaming, trigger) ==
    [role |-> role, content |-> content, streaming |-> streaming, trigger |-> trigger]

\* Mutant: any assistant message at the end takes the next chunk.
LastStreaming_AnyAssistant(w) ==
    w.asm.messages # <<>> /\ w.asm.messages[Len(w.asm.messages)].role = "assistant"

LastStreaming(w) ==
    w.asm.messages # <<>> /\ w.asm.messages[Len(w.asm.messages)].streaming

\* Mutant: a chunk is submitted only while nothing else awaits synthesis.
queueChunkTTS_WhenIdle(w, text) ==
    IF Trim(text) = <<>> \/ w.tts.synthesisQueue # <<>> THEN w ELSE play(w, text, "noop")

queueChunkTTS(w, text) ==
    IF Trim(text) = <<>> THEN w ELSE play(w, text, "noop")

\* Mutant: the chunk is put in front of the content.
AppendChunk_Prepend(content, chunk) == chunk \o content

\* lastMsg.content += chunk.content
AppendChunk(content, chunk) == content \o chunk

handleChunk(w, chunk) ==
    LET n == Len(w.asm.messages)
        w1 == IF LastStreaming(w)
              THEN [w EXCEPT !.asm.messages[n].content = AppendChunk(@, chunk.content)]
              ELSE [w EXCEPT !.asm.messages =
                        Append(@, Message("assistant", chunk.content, TRUE, "none"))]
        w2 == IF Trim(chunk.content) # <<>> THEN queueChunkTTS(w1, chunk.content) ELSE w1
    IN  onMessagesUpdate(w2, w2.asm.messages)

handleComplete(w, complete) ==
    IF LastStreaming(w)
    THEN LET w1 == [w EXCEPT !.asm.messages[Len(w.asm.messages)].streaming = FALSE]
         IN  onMessagesUpdate(w1, w1.asm.messages)
    ELSE w

playTTS(w, content) ==
    IF Trim(content) = <<>> THEN w
    ELSE play(onAISpeakingChange(w, TRUE), content, "speaking")

handleRegularMessage(w, message) ==
    LET content == message.content
        w1 == [w EXCEPT !.asm.messages =
                   Append(@, Message("assistant", content, FALSE, message.trigger))]
        w2 == IF content # <<>> /\ message.trigger = "none" THEN playTTS(w1, content) ELSE w1
    IN  onMessagesUpdate(w2, w2.asm.messages)

handleMessage(w, message) ==
    IF message.type = "ai_chunk" THEN handleChunk(w, message)
    ELSE IF message.type = "ai_complete" THEN handleComplete(w, message)
    ELSE IF message.type \in {"ai_message", "ai_response"} THEN handleRegularMessage(w, message)
    ELSE w

addUserMessage(w, content) ==
    LET w1 == ttsStop(Call(w, <<"tts.stop">>))
        w2 == [w1 EXCEPT !.asm.messages = Append(@, Message("user", content, FALSE, "none"))]
    IN  onMessagesUpdate(w2, w2.asm.messages)

getMessages(w) == w.asm.messages

\* [...this.messages]: a new array holding the same message objects. The
\* array this.messages only grows by push() until clearMessages() replaces
\* it, so the object at position i is referred to by i.
SnapshotRefs(w) == [i \in 1..Len(w.asm.messages) |-> i]

\* What the holder of a snapshot reads from it once the handler has left the
\* message objects as in messages: the objects' fields as they are now.
ReadSnapshot(refs, messages) == [k \in 1..Len(refs) |-> messages[refs[k]]]

clearMessages(w) == onMessagesUpdate([w EXCEPT !.asm.messages = <<>>], <<>>)

\* The inbound messages of the model: [type, content, trigger].
ChunkTexts == {<<"a">>, <<"b">>, <<" ">>}

Inbound ==
    [type : {"ai_chunk"}, content : ChunkTexts, trigger : {"none"}]
    \cup [type : {"ai_complete"}, content : {<<"a">>}, trigger : {"none"}]
    \cup [type : {"ai_message"}, content : {<<"a">>, <<>>}, trigger : {"none"}]
    \cup [type : {"ai_message"}, content : {<<"a">>}, trigger : {"nudge"}]
    \cup [type : {"ai_response"}, content : {<<"a">>}, trigger : {"none"}]
    \cup [type : {"analysis"}, content : {<<>>}, trigger : {"none"}]

AsmPre == [count |-> Len(asm.messages), items |-> Len(synth)]

\* The messages that add to or close the message list end the running turn.
TurnAfter(message) ==
    IF message.type = "ai_chunk"
    THEN [turn |-> Append(asmLog.turn, message.content),
          base |-> IF asmLog.turn = <<>> THEN Len(asm.messages) ELSE asmLog.base]
    ELSE IF message.type \in {"ai_complete", "ai_message", "ai_response"}
    THEN AsmLogInit
    ELSE asmLog

RECURSIVE ContentLength(_)
ContentLength(messages) ==
    IF messages = <<>> THEN 0 ELSE Len(Head(messages).content) + ContentLength(Tail(messages))

\* The bounds of the TTS items, of the message list and of its contents together.
AsmBounded(w) ==
    /\ Len(w.synth) <= MaxAsmItems
    /\ Len(w.asm.messages) <= MaxMessages
    /\ ContentLength(w.asm.messages) <= MaxContent

AsmHandleMessage ==
    \E message \in Inbound :
        LET w == RunMicrotasks(handleMessage(World, message))
        IN  /\ AsmBounded(w)
            /\ Commit([w EXCEPT !.asmLog = TurnAfter(message)],
                      "handleMessage", <<message.type, message.content, message.trigger>>, AsmPre)

AsmAddUserMessage ==
    \E content \in {<<"a">>} :
        LET w == RunMicrotasks(addUserMessage(World, content))
        IN  /\ AsmBounded(w)
            /\ Commit([w EXCEPT !.asmLog = AsmLogInit], "addUserMessage", <<content>>, AsmPre)

AsmClearMessages ==
    /\ asm.messages # <<>>
    /\ Commit([RunMicrotasks(clearMessages(World)) EXCEPT !.asmLog = AsmLogInit],
              "clearMessages", <<>>, AsmPre)

(***************************************************************************)
(* BargeInService (barge-in.ts)                                            *)
(***************************************************************************)
\* ttsService: whether a TTSService was given; onInterrupt: "none" (null) or
\* "probe", a callback that records what isSpeaking() returns when it runs.
BargeInit ==
    [isAISpeaking |-> FALSE, ttsService |-> TRUE, onInterrupt |-> "none", enabled |-> TRUE]

setInterruptCallback(w, callback) == [w EXCEPT !.barge.onInterrupt = callback]

setAISpeaking(w, speaking) == [w EXCEPT !.barge.isAISpeaking = speaking]

onInterrupt(w) ==
    IF w.barge.onInterrupt = "none" THEN w
    ELSE LET w1 == Call(w, <<"onInterrupt", isSpeaking(w)>>)
         IN  IF w.barge.onInterrupt = "controller" THEN interrupt(w1) ELSE w1

bargeInterrupt(w) ==
    LET w1 == IF w.barge.ttsService THEN ttsStop(Call(w, <<"tts.stop">>)) ELSE w
        w2 == [w1 EXCEPT !.barge.isAISpeaking = FALSE]
    IN  onInterrupt(w2)

\* Mutant: onUserSpeechStart() without the check of the enabled flag.
onUserSpeechStart_IgnoreEnabled(w) ==
    IF w.barge.isAISpeaking THEN bargeInterrupt(w) ELSE w

onUserSpeechStart(w) ==
    IF ~w.barge.enabled THEN w
    ELSE IF w.barge.isAISpeaking THEN bargeInterrupt(w)
    ELSE w

setEnabled(w, enabled) == [w EXCEPT !.barge.enabled = enabled]

BargePre ==
    [isAISpeaking |-> barge.isAISpeaking, enabled |-> barge.enabled,
     onInterrupt |-> barge.onInterrupt, isPlaying |-> tts.isPlaying]

BargeSetAISpeaking ==
    \E speaking \in BOOLEAN :
        Commit(setAISpeaking(World, speaking), "setAISpeaking", <<speaking>>, BargePre)

BargeSetEnabled ==
    \E enabled \in BOOLEAN :
        Commit(setEnabled(World, enabled), "setEnabled", <<enabled>>, BargePre)

BargeSetInterruptCallback ==
    /\ barge.onInterrupt = "none"
    /\ Commit(setInterruptCallback(World, "probe"), "setInterruptCallback", <<"probe">>, BargePre)

BargeOnUserSpeechStart ==
    /\ Commit(RunMicrotasks(onUserSpeechStart(World)), "onUserSpeechStart", <<>>, BargePre)

BargeTtsPlay == TtsPlayUpTo(MaxBargeItems)

(***************************************************************************)
(* VADService (vad.ts)                                                     *)
(*                                                                         *)
(* silenceTimer is "null" or "set" (a timer handle); the handle is kept    *)
(* after the timer has fired.  vadTimer tells whether the timer of the      *)
(* handle is pending.  The history counts the pending timers (pending) and *)
(* tells whether no transcript was passed since the timer was set (fresh). *)
(***************************************************************************)
VadConfig(config) ==
    [silenceThreshold |-> IF "silenceThreshold" \in DOMAIN config /\ config.silenceThreshold # 0
                          THEN config.silenceThreshold ELSE 800,
     minTextLength |-> IF "minTextLength" \in DOMAIN config /\ config.minTextLength # 0
                       THEN config.minTextLength ELSE 2,
     enabled |-> IF "enabled" \in DOMAIN config THEN config.enabled # FALSE ELSE TRUE]

VadInit ==
    [silenceTimer |-> "null", accumulatedText |-> <<>>, onAutoSend |-> "null",
     config |-> VadConfig(<<>>)]

VadLogInit == [fed |-> <<>>, pending |-> 0, fresh |-> TRUE]

\* The callback the controller registers with setAutoSendCallback.
RECURSIVE sendMessage(_, _)

onAutoSend(w, text) ==
    IF w.vad.onAutoSend = "null" THEN w
    ELSE LET w1 == Call(w, <<"onAutoSend", text>>)
         IN  IF w.vad.onAutoSend = "controller" THEN sendMessage(w1, text) ELSE w1

\* Mutant: clearSilenceTimer() that drops the handle without clearTimeout.
clearSilenceTimer_Keep(w) ==
    IF w.vad.silenceTimer # "null" THEN [w EXCEPT !.vad.silenceTimer = "null"] ELSE w

clearSilenceTimer(w) ==
    IF w.vad.silenceTimer # "null"
    THEN [w EXCEPT !.vadTimer = FALSE, !.vad.silenceTimer = "null",
                   !.vadLog.pending = IF w.vadTimer THEN @ - 1 ELSE @]
    ELSE w

resetSilenceTimer(w) == clearSilenceTimer(w)

startSilenceDetection(w) ==
    [clearSilenceTimer(w) EXCEPT !.vadTimer = TRUE, !.vad.silenceTimer = "set",
                                 !.vadLog.pending = @ + 1, !.vadLog.fresh = TRUE]

\* Mutant: the text must be longer than minTextLength.
silenceTimeout_Longer(w) ==
    IF Len(Trim(w.vad.accumulatedText)) > w.vad.config.minTextLength
    THEN [onAutoSend(w, Trim(w.vad.accumulatedText)) EXCEPT !.vad.accumulatedText = <<>>]
    ELSE w

\* The callback of the silence timer (vad.ts, the arrow function of setTimeout).
silenceTimeout(w) ==
    IF Len(Trim(w.vad.accumulatedText)) >= w.vad.config.minTextLength
    THEN [onAutoSend(w, Trim(w.vad.accumulatedText)) EXCEPT !.vad.accumulatedText = <<>>]
    ELSE w

\* Mutant: the transcripts joined by a space.
Accumulate_Separator(text, transcript) ==
    IF text = <<>> THEN transcript ELSE text \o <<" ">> \o transcript

\* this.accumulatedText += transcript
Accumulate(text, transcript) == text \o transcript

onSpeech(w, transcript, isFinal) ==
    IF ~w.vad.config.enabled THEN [w EXCEPT !.vadLog.fresh = ~w.vadTimer]
    ELSE LET w1 == resetSilenceTimer(w)
             w2 == IF isFinal
                   THEN [w1 EXCEPT !.vad.accumulatedText = Accumulate(@, transcript)]
                   ELSE w1
         IN  startSilenceDetection(w2)

vadReset(w) == clearSilenceTimer([w EXCEPT !.vad.accumulatedText = <<>>])

setAutoSendCallback(w, callback) == [w EXCEPT !.vad.onAutoSend = callback]

\* this.config = { ...this.config, ...config }
vadUpdateConfig(w, config) ==
    [w EXCEPT !.vad.config =
        [k \in DOMAIN @ |-> IF k \in DOMAIN config THEN config[k] ELSE @[k]]]

vadDestroy(w) ==
    [clearSilenceTimer(w) EXCEPT !.vad.accumulatedText = <<>>, !.vad.onAutoSend = "null"]

\* The transcripts of the speech recognition: one and two characters, with
\* and without white space.
Transcripts == {<<"a">>, <<"b", "c">>, <<" ">>, <<" ", "d">>}

\* The partial configurations passed to updateConfig.
VadConfigs == {[enabled |-> TRUE], [enabled |-> FALSE], [minTextLength |-> 1]}

VadPre ==
    [text |-> vad.accumulatedText, fed |-> vadLog.fed, timer |-> vadTimer,
     onAutoSend |-> vad.onAutoSend, config |-> vad.config]

\* The history keeps the final transcripts buffered since the buffer was
\* last emptied.
VadLogged(w, fed) ==
    [w EXCEPT !.vadLog.fed = IF w.vad.accumulatedText = <<>> THEN <<>> ELSE fed]

VadOnSpeech ==
    \E transcript \in Transcripts, isFinal \in BOOLEAN :
        /\ Len(vad.accumulatedText) + Len(transcript) <= MaxBuffer
        /\ Commit(VadLogged(onSpeech(World, transcript, isFinal),
                            IF isFinal /\ vad.config.enabled
                            THEN Append(vadLog.fed, transcript) ELSE vadLog.fed),
                  "onSpeech", <<transcript, isFinal>>, VadPre)

VadSilenceTimeout ==
    /\ vadTimer
    /\ Commit(VadLogged(RunMicrotasks(silenceTimeout([World EXCEPT !.vadTimer = FALSE,
                                                                   !.vadLog.pending = @ - 1])),
                        vadLog.fed),
              "silenceTimeout", <<>>, VadPre)

VadReset ==
    /\ Commit(VadLogged(vadReset(World), vadLog.fed), "vadReset", <<>>, VadPre)

VadSetAutoSendCallback ==
    /\ vad.onAutoSend = "null"
    /\ Commit(setAutoSendCallback(World, "probe"), "setAutoSendCallback", <<"probe">>, VadPre)

VadUpdateConfig ==
    \E config \in VadConfigs :
        /\ Commit(vadUpdateConfig(World, config), "vadUpdateConfig", <<config>>, VadPre)

VadDestroy ==
    /\ Commit(VadLogged(vadDestroy(World), vadLog.fed), "vadDestroy", <<>>, VadPre)

(***************************************************************************)
(* RealtimeAIServiceEnhanced (realtime-enhanced.ts)                        *)
(*                                                                         *)
(* ws.ws is "null" or "socket"; net.cur is the readyState of the socket    *)
(* that this.ws refers to.  A socket that this.ws no longer refers to      *)
(* keeps its handlers until its close event: net.stale counts such sockets *)
(* by readyState.  Timer handles are "null" or "set"; a handle is kept     *)
(* after its timer has fired.  net.reconnect is the pending reconnect      *)
(* timer with its delay, net.interval the heartbeat interval, net.timeout  *)
(* the heartbeat timeout of the handle and net.leaked the number of        *)
(* pending heartbeat timeouts whose handle was overwritten.                *)
(***************************************************************************)
WsInit ==
    [ws |-> "null", onMessageCallback |-> "null",
     reconnectAttempts |-> 0, maxReconnectAttempts |-> 10,
     reconnectDelay |-> 1000, maxReconnectDelay |-> 30000,
     reconnectTimer |-> "null", isIntentionalClose |-> FALSE,
     heartbeatInterval |-> "null", heartbeatTimeout |-> "null"]

NetInit ==
    [cur |-> "none",
     stale |-> [connecting |-> 0, open |-> 0, closing |-> 0],
     reconnect |-> [pending |-> FALSE, delay |-> 0],
     interval |-> FALSE, timeout |-> FALSE, leaked |-> 0]

\* k: the reconnect attempts started since the last open event;
\* closed: disconnect() was called and connect() was not called since;
\* overlap: connect() was once called while this.ws was not null or a
\* reconnect was pending.
WsLogInit == [k |-> 0, closed |-> FALSE, overlap |-> FALSE]

Live == {"connecting", "open", "closing"}

StaleTotal(n) == n.stale.connecting + n.stale.open + n.stale.closing

Min(a, b) == IF a < b THEN a ELSE b

\* Mutant: the backoff without the upper limit.
BackoffDelay_NoCap(reconnectDelay, attempts, maxReconnectDelay) ==
    reconnectDelay * 2^attempts

\* Math.min(this.reconnectDelay * Math.pow(2, this.reconnectAttempts), this.maxReconnectDelay)
BackoffDelay(reconnectDelay, attempts, maxReconnectDelay) ==
    Min(reconnectDelay * 2^attempts, maxReconnectDelay)

scheduleReconnect(w) ==
    LET w1 == IF w.ws.reconnectTimer # "null"
              THEN [w EXCEPT !.net.reconnect.pending = FALSE] ELSE w
        delay == BackoffDelay(w.ws.reconnectDelay, w.ws.reconnectAttempts,
                              w.ws.maxReconnectDelay)
    IN  Call([w1 EXCEPT !.net.reconnect = [pending |-> TRUE, delay |-> delay],
                        !.ws.reconnectTimer = "set"],
             <<"setTimeout", "reconnect", delay>>)

stopHeartbeat(w) ==
    LET w1 == IF w.ws.heartbeatInterval # "null"
              THEN [w EXCEPT !.net.interval = FALSE, !.ws.heartbeatInterval = "null"]
              ELSE w
    IN  IF w1.ws.heartbeatTimeout # "null"
        THEN [w1 EXCEPT !.net.timeout = FALSE, !.ws.heartbeatTimeout = "null"]
        ELSE w1

startHeartbeat(w) ==
    [stopHeartbeat(w) EXCEPT !.net.interval = TRUE, !.ws.heartbeatInterval = "set"]

handlePong(w) ==
    IF w.ws.heartbeatTimeout # "null"
    THEN [w EXCEPT !.net.timeout = FALSE, !.ws.heartbeatTimeout = "null"]
    ELSE w

\* WebSocket.close() on the socket of this.ws
SocketClose(w) ==
    IF w.net.cur \in {"connecting", "open"} THEN [w EXCEPT !.net.cur = "closing"] ELSE w

\* The callback of the heartbeat interval.
heartbeatTick(w) ==
    IF w.ws.ws # "null" /\ w.net.cur = "open"
    THEN [Call(w, <<"send", "ping">>) EXCEPT
              !.net.leaked = IF w.net.timeout THEN @ + 1 ELSE @,
              !.net.timeout = TRUE,
              !.ws.heartbeatTimeout = "set"]
    ELSE w

\* The callback of a heartbeat timeout: this.ws?.close()
heartbeatTimeout(w) == IF w.ws.ws # "null" THEN SocketClose(w) ELSE w

onopen(w) ==
    startHeartbeat([w EXCEPT !.ws.reconnectAttempts = 0, !.ws.reconnectDelay = 1000])

\* The payloads of a message event: a pong, an AI message, a chunk of a
\* streamed AI message, the JSON text null, and a text that is not JSON.
Payloads == {"pong", "ai_message", "ai_chunk", "null", "garbage"}

\* JSON.parse(event.data) returns
Parses(data) == data # "garbage"

\* The message a payload parses to.
Parsed(data) == [type |-> data, content |-> <<"a">>, trigger |-> "none"]

\* Mutant: onmessage without the interception of the pong.
onmessage_ForwardPong(w, data) ==
    IF ~Parses(data) \/ data = "null" THEN Call(w, <<"console.error", "parse">>)
    ELSE IF w.ws.onMessageCallback # "null" THEN Call(w, <<"onMessage", data>>)
    ELSE Call(w, <<"console.error", "callback">>)

\* JSON.parse throws on a text that is not JSON, and data.type throws on
\* null: both end in the catch block.
onmessage(w, data) ==
    IF ~Parses(data) \/ data = "null" THEN Call(w, <<"console.error", "parse">>)
    ELSE IF data = "pong" THEN handlePong(w)
    ELSE IF w.ws.onMessageCallback = "controller"
    THEN handleMessage(Call(w, <<"onMessage", data>>), Parsed(data))
    ELSE IF w.ws.onMessageCallback # "null" THEN Call(w, <<"onMessage", data>>)
    ELSE Call(w, <<"console.error", "callback">>)

onclose(w) ==
    LET w1 == stopHeartbeat(w)
    IN  IF ~w1.ws.isIntentionalClose /\ w1.ws.reconnectAttempts < w1.ws.maxReconnectAttempts
        THEN scheduleReconnect(w1)
        ELSE IF w1.ws.reconnectAttempts >= w1.ws.maxReconnectAttempts
        THEN Call(w1, <<"console.error", "max">>)
        ELSE w1

\* The socket of this.ws, when it is still live, is left to itself.
Detach(w) ==
    IF w.ws.ws # "null" /\ w.net.cur \in Live
    THEN [w EXCEPT !.net.stale[w.net.cur] = @ + 1]
    ELSE w

\* throws: whether new WebSocket(url) throws.
createConnection(w, throws) ==
    IF throws THEN scheduleReconnect(Call(w, <<"console.error", "create">>))
    ELSE [Detach(w) EXCEPT !.net.cur = "connecting", !.ws.ws = "socket"]

connect(w, onMessage, throws) ==
    createConnection([w EXCEPT !.ws.onMessageCallback = onMessage,
                               !.ws.isIntentionalClose = FALSE], throws)

\* The callback of the reconnect timer.
reconnectTimeout(w, throws) ==
    createConnection([w EXCEPT !.ws.reconnectAttempts = @ + 1], throws)

wsSendFrame(w, frameData) ==
    IF w.ws.ws # "null" /\ w.net.cur = "open"
    THEN Call(w, <<"send", "frame", frameData>>)
    ELSE w

\* Mutant: sendMessage() without the check of the connection.
wsSendMessage_NoCheck(w, message) == Call(w, <<"send", "user_message", message>>)

wsSendMessage(w, message) ==
    IF w.ws.ws # "null" /\ w.net.cur = "open"
    THEN Call(w, <<"send", "user_message", message>>)
    ELSE w

endSession(w) ==
    IF w.ws.ws # "null" /\ w.net.cur = "open"
    THEN Call(w, <<"send", "end_session">>)
    ELSE w

\* Mutant: disconnect() that leaves the reconnect timer pending.
disconnect_KeepTimer(w) ==
    LET w1 == stopHeartbeat([w EXCEPT !.ws.isIntentionalClose = TRUE])
    IN  IF w1.ws.ws # "null"
        THEN [Detach(SocketClose(w1)) EXCEPT !.net.cur = "none", !.ws.ws = "null"]
        ELSE w1

disconnect(w) ==
    LET w1 == stopHeartbeat([w EXCEPT !.ws.isIntentionalClose = TRUE])
        w2 == IF w1.ws.reconnectTimer # "null"
              THEN [w1 EXCEPT !.net.reconnect.pending = FALSE, !.ws.reconnectTimer = "null"]
              ELSE w1
    IN  IF w2.ws.ws # "null"
        THEN [Detach(SocketClose(w2)) EXCEPT !.net.cur = "none", !.ws.ws = "null"]
        ELSE w2

isConnected(w) == w.ws.ws # "null" /\ w.net.cur = "open"

WsPre ==
    [k |-> wsLog.k, isIntentionalClose |-> ws.isIntentionalClose,
     reconnectAttempts |-> ws.reconnectAttempts, reconnect |-> net.reconnect,
     isConnected |-> isConnected(World)]

WsConnect ==
    \E throws \in BOOLEAN :
        LET w == connect([World EXCEPT !.wsLog.closed = FALSE,
                                       !.wsLog.overlap = @ \/ ws.ws # "null" \/ net.reconnect.pending],
                         "probe", throws)
        IN  /\ StaleTotal(w.net) <= MaxStale
            /\ Commit(w, "connect", <<"probe", throws>>, WsPre)

WsDisconnect ==
    LET w == disconnect([World EXCEPT !.wsLog.closed = TRUE])
    IN  /\ StaleTotal(w.net) <= MaxStale
        /\ Commit(w, "disconnect", <<>>, WsPre)

WsReconnectTimeout ==
    \E throws \in BOOLEAN :
        LET w == reconnectTimeout([World EXCEPT !.net.reconnect.pending = FALSE,
                                                !.wsLog.k = @ + 1], throws)
        IN  /\ net.reconnect.pending
            /\ ws.reconnectAttempts < MaxAttempts
            /\ StaleTotal(w.net) <= MaxStale
            /\ Commit(w, "reconnectTimeout", <<throws>>, WsPre)

WsHeartbeatTick ==
    /\ net.interval
    /\ net.timeout => net.leaked < MaxLeaked
    /\ Commit(heartbeatTick(World), "heartbeatTick", <<>>, WsPre)

WsHeartbeatTimeout ==
    \/ /\ net.timeout
       /\ Commit(heartbeatTimeout([World EXCEPT !.net.timeout = FALSE]),
                 "heartbeatTimeout", <<"handle">>, WsPre)
    \/ /\ net.leaked > 0
       /\ Commit(heartbeatTimeout([World EXCEPT !.net.leaked = @ - 1]),
                 "heartbeatTimeout", <<"leaked">>, WsPre)

\* The open event of a socket: of the socket of this.ws, or of another one.
WsSockOpen ==
    \/ /\ net.cur = "connecting"
       /\ Commit(onopen([World EXCEPT !.net.cur = "open", !.wsLog.k = 0]),
                 "onopen", <<"current">>, WsPre)
    \/ /\ net.stale.connecting > 0
       /\ Commit(onopen([World EXCEPT !.net.stale.connecting = @ - 1,
                                      !.net.stale.open = @ + 1,
                                      !.wsLog.k = 0]),
                 "onopen", <<"stale">>, WsPre)

\* The close event of a socket: the end of a closing handshake, a failure to
\* connect, or a connection lost.
WsSockClose ==
    \/ /\ net.cur \in Live
       /\ Commit(onclose([World EXCEPT !.net.cur = "closed"]), "onclose", <<"current">>, WsPre)
    \/ \E st \in Live :
        /\ net.stale[st] > 0
        /\ Commit(onclose([World EXCEPT !.net.stale[st] = @ - 1]), "onclose", <<"stale">>, WsPre)

WsSockMessage ==
    \E data \in Payloads :
        /\ net.cur = "open" \/ net.stale.open > 0
        /\ Commit(RunMicrotasks(onmessage(World, data)), "onmessage", <<data>>, WsPre)

WsSendMessage ==
    /\ Commit(wsSendMessage(World, "m"), "sendMessage", <<"m">>, WsPre)

WsSendFrame ==
    /\ Commit(wsSendFrame(World, "f"), "sendFrame", <<"f">>, WsPre)

WsEndSession ==
    /\ Commit(endSession(World), "endSession", <<>>, WsPre)

(***************************************************************************)
(* VoiceRecognitionService (voice.ts)                                      *)
(*                                                                         *)
(* speech.state is the state of the SpeechRecognition object: idle,        *)
(* starting (start() was called and the start event is due), running, and  *)
(* stopping (stop() was called and the end event is due).                  *)
(***************************************************************************)
VoiceInit ==
    [isListening |-> FALSE, isEnabled |-> FALSE,
     onTranscriptCallback |-> "null", onErrorCallback |-> "null", silenceTimer |-> "null"]

SpeechInit == [state |-> "idle", restarts |-> 0]

\* The transcript callback the controller passes to start().
RECURSIVE handleVoiceTranscript(_, _, _)

\* recognition.start() inside the try/catch of internalStart: it throws
\* unless the object is idle.
recognitionStart(w) ==
    IF w.speech.state = "idle" THEN [w EXCEPT !.speech.state = "starting"]
    ELSE Call(w, <<"console.error", "start">>)

\* recognition.stop()
recognitionStop(w) ==
    IF w.speech.state \in {"starting", "running"} THEN [w EXCEPT !.speech.state = "stopping"]
    ELSE w

internalStart(w) == IF w.voice.isListening THEN w ELSE recognitionStart(w)

voiceStart(w, onTranscript, onError) ==
    internalStart([w EXCEPT !.voice.onTranscriptCallback = onTranscript,
                            !.voice.onErrorCallback = onError,
                            !.voice.isEnabled = TRUE])

voiceStop(w) ==
    LET w1 == [w EXCEPT !.voice.isEnabled = FALSE, !.voice.silenceTimer = "null"]
        w2 == IF w1.voice.isListening THEN recognitionStop(w1) ELSE w1
    IN  [w2 EXCEPT !.voice.isListening = FALSE]

isActive(w) == w.voice.isListening

\* setTimeout(() => { if (this.isEnabled) this.internalStart() }, ...)
scheduleRestart(w) ==
    IF w.voice.isEnabled THEN [w EXCEPT !.speech.restarts = @ + 1] ELSE w

\* Mutant: the restart timer starts the recognition whatever the flag.
restartTimeout_Unchecked(w) == internalStart(w)

restartTimeout(w) == IF w.voice.isEnabled THEN internalStart(w) ELSE w

onstart(w) == [w EXCEPT !.voice.isListening = TRUE]

\* The second assignment of recognition.onend, which replaces the first.
onend(w) == scheduleRestart([w EXCEPT !.voice.isListening = FALSE])

onresult(w, transcript, isFinal) ==
    LET t == Trim(transcript)
        cb == w.voice.onTranscriptCallback
        w1 == IF cb = "null" THEN Call(w, <<"console.warn", "callback">>)
              ELSE IF cb = "controller" THEN handleVoiceTranscript(w, t, isFinal)
              ELSE IF cb = "placeholder" THEN w
              ELSE Call(w, <<"onTranscript", t, isFinal>>)
    IN  [w1 EXCEPT !.voice.silenceTimer = "set"]

SpeechErrors == {"no-speech", "not-allowed", "network"}

onerror(w, error) ==
    IF error = "no-speech" THEN w
    ELSE IF error \in {"audio-capture", "not-allowed"}
    THEN voiceStop(IF w.voice.onErrorCallback # "null"
                   THEN Call(w, <<"onError", error>>) ELSE w)
    ELSE scheduleRestart(w)

(***************************************************************************)
(* HandsFreeService (hands-free.ts)                                        *)
(***************************************************************************)
HfInit ==
    [voiceService |-> TRUE, vadService |-> TRUE,
     config |-> [enabled |-> FALSE, autoResumeAfterAI |-> TRUE, cooldownMs |-> 300],
     resumeTimer |-> "null"]

\* this.stateMachine.addListener(this.handleStateChange.bind(this))
hfConstructor(w) == addListener(w, "handsFree")

hfStartListening(w) ==
    IF ~w.hf.voiceService THEN Call(w, <<"console.warn", "voice">>)
    ELSE IF ~isActive(w) THEN voiceStart(w, "placeholder", "placeholder")
    ELSE w

hfStopListening(w) ==
    IF w.hf.voiceService /\ isActive(w) THEN voiceStop(w) ELSE w

\* clearTimeout of a timer that has fired changes nothing.
clearResumeTimer(w) ==
    IF w.hf.resumeTimer # "null"
    THEN [w EXCEPT !.hfTimer = IF @ > 0 THEN @ - 1 ELSE 0, !.hf.resumeTimer = "null"]
    ELSE w

enable(w) ==
    IF w.hf.config.enabled THEN w
    ELSE LET w1 == [w EXCEPT !.hf.config.enabled = TRUE]
         IN  IF w1.hf.voiceService THEN hfStartListening(w1) ELSE w1

disable(w) ==
    IF ~w.hf.config.enabled THEN w
    ELSE LET w1 == [w EXCEPT !.hf.config.enabled = FALSE]
             w2 == IF w1.hf.voiceService THEN voiceStop(w1) ELSE w1
         IN  stop(clearResumeTimer(w2))

toggle(w) == IF w.hf.config.enabled THEN disable(w) ELSE enable(w)

isEnabled(w) == w.hf.config.enabled

\* this.config = { ...this.config, ...config }
hfUpdateConfig(w, config) ==
    [w EXCEPT !.hf.config =
        [k \in DOMAIN @ |-> IF k \in DOMAIN config THEN config[k] ELSE @[k]]]

handleStateChange(w, newState, prevState) ==
    IF ~w.hf.config.enabled THEN w
    ELSE IF newState \in {LISTENING, INTERRUPTED} THEN hfStartListening(w)
    ELSE IF newState \in {THINKING, SPEAKING, IDLE} THEN hfStopListening(w)
    ELSE w

\* Mutant: onAIFinishedSpeaking() that leaves an earlier timer pending.
onAIFinishedSpeaking_NoClear(w) ==
    IF ~w.hf.config.enabled \/ ~w.hf.config.autoResumeAfterAI THEN w
    ELSE [Call(w, <<"setTimeout", "resume", w.hf.config.cooldownMs>>) EXCEPT
              !.hfTimer = @ + 1, !.hf.resumeTimer = "set"]

onAIFinishedSpeaking(w) ==
    IF ~w.hf.config.enabled \/ ~w.hf.config.autoResumeAfterAI THEN w
    ELSE [Call(clearResumeTimer(w), <<"setTimeout", "resume", w.hf.config.cooldownMs>>) EXCEPT
              !.hfTimer = @ + 1, !.hf.resumeTimer = "set"]

\* The callback of the setTimeout of onAIFinishedSpeaking().
resumeTimeout(w) == IF w.hf.config.enabled THEN startListening(w) ELSE w

hfDestroy(w) == clearResumeTimer(disable(w))

HfConfigs == {[enabled |-> FALSE], [autoResumeAfterAI |-> FALSE], [autoResumeAfterAI |-> TRUE]}

\* What a task on the hands-free or the voice service leaves in ev.pre.
HfPre ==
    [enabled |-> hf.config.enabled, autoResumeAfterAI |-> hf.config.autoResumeAfterAI,
     timers |-> hfTimer, state |-> sm.currentState, speech |-> speech.state,
     isListening |-> voice.isListening]

HfOp(w) == [w EXCEPT !.sm.ops = @ + 1]

HfEnable ==
    /\ sm.ops < MaxSmOps
    /\ Commit(HfOp(enable(World)), "enable", <<>>, HfPre)

HfDisable ==
    /\ sm.ops < MaxSmOps
    /\ Commit(HfOp(disable(World)), "disable", <<>>, HfPre)

HfToggle ==
    /\ sm.ops < MaxSmOps
    /\ Commit(HfOp(toggle(World)), "toggle", <<>>, HfPre)

HfUpdateConfig ==
    /\ sm.ops < MaxSmOps
    /\ \E config \in HfConfigs :
           Commit(HfOp(hfUpdateConfig(World, config)), "hfUpdateConfig", <<config>>, HfPre)

HfOnAIFinishedSpeaking ==
    /\ sm.ops < MaxSmOps
    /\ Commit(HfOp(onAIFinishedSpeaking(World)), "onAIFinishedSpeaking", <<>>, HfPre)

HfResumeTimeout ==
    /\ hfTimer > 0
    /\ Commit(resumeTimeout([World EXCEPT !.hfTimer = @ - 1]), "resumeTimeout", <<>>, HfPre)

HfDestroy ==
    /\ sm.ops < MaxSmOps
    /\ Commit(HfOp(hfDestroy(World)), "hfDestroy", <<>>, HfPre)

VoiceOnStart ==
    /\ speech.state = "starting"
    /\ Commit(onstart([World EXCEPT !.speech.state = "running"]), "onstart", <<>>, HfPre)

\* The end event: after stop(), after an error, or by the engine itself.
VoiceOnEnd ==
    /\ speech.state # "idle"
    /\ voice.isEnabled => speech.restarts < MaxRestarts
    /\ Commit(onend([World EXCEPT !.speech.state = "idle"]), "onend", <<>>, HfPre)

\* A result event; after stop() the engine may still return the result of
\* the audio captured so far.
VoiceOnResult ==
    /\ speech.state \in {"running", "stopping"}
    /\ \E transcript \in Transcripts, isFinal \in BOOLEAN :
           Commit(RunMicrotasks(onresult(World, transcript, isFinal)),
                  "onresult", <<transcript, isFinal>>, HfPre)

VoiceOnError ==
    /\ speech.state \in {"starting", "running"}
    /\ speech.restarts < MaxRestarts
    /\ \E error \in SpeechErrors :
           /\ Commit(onerror(World, error), "onerror", <<error>>, HfPre)

VoiceRestartTimeout ==
    /\ speech.restarts > 0
    /\ Commit(restartTimeout([World EXCEPT !.speech.restarts = @ - 1]),
              "restartTimeout", <<>>, HfPre)

(***************************************************************************)
(* AIConversationController (conversation-controller.ts)                   *)
(***************************************************************************)
\* constructed: the constructor has run; steps: the tasks run since;
\* quiet: stopRecording() has returned and no method was called since.
CtlInit ==
    [isRecording |-> FALSE,
     config |-> [enableVAD |-> TRUE, enableBargeIn |-> TRUE, enableHandsFree |-> FALSE,
                 vadSilenceThreshold |-> 800],
     constructed |-> FALSE, steps |-> 0, quiet |-> FALSE]

\* The partial configurations given to the constructor and to updateConfig.
CtlConfigs == {[enableHandsFree |-> TRUE], [enableVAD |-> FALSE], [enableBargeIn |-> FALSE]}

MergeConfig(old, config) ==
    [k \in DOMAIN old |-> IF k \in DOMAIN config THEN config[k] ELSE old[k]]

constructor(w, config) ==
    LET cfg == MergeConfig(w.ctl.config, config)
        w1 == addListener([w EXCEPT !.ctl.config = cfg, !.ctl.constructed = TRUE], "controller")
        w2 == [w1 EXCEPT !.asm.onAISpeakingChange = "controller",
                         !.vad.config = VadConfig([silenceThreshold |-> cfg.vadSilenceThreshold,
                                                   enabled |-> cfg.enableVAD])]
        w3 == setAutoSendCallback(w2, "controller")
        w4 == setInterruptCallback(setEnabled(w3, cfg.enableBargeIn), "controller")
        w5 == hfConstructor(w4)
    IN  IF cfg.enableHandsFree THEN enable(w5) ELSE w5

startRecording(w, throws) ==
    IF w.ctl.isRecording THEN w
    ELSE LET w1 == [w EXCEPT !.ctl.isRecording = TRUE,
                             !.wsLog.closed = FALSE,
                             !.wsLog.overlap = @ \/ w.ws.ws # "null" \/ w.net.reconnect.pending]
             w2 == connect(w1, "controller", throws)
             w3 == voiceStart(w2, "controller", "controller")
         IN  startListening(w3)

stopRecording(w) ==
    IF ~w.ctl.isRecording THEN w
    ELSE LET w1 == endSession([w EXCEPT !.ctl.isRecording = FALSE, !.wsLog.closed = TRUE])
         IN  stop(disable(voiceStop(disconnect(w1))))

ctlSendFrame(w, frameData) == wsSendFrame(w, frameData)

\* Mutant: sendMessage() that forwards the message before it appends it.
sendMessage_SendFirst(w, text) ==
    IF Trim(text) = <<>> THEN w
    ELSE startThinking(vadReset(addUserMessage(wsSendMessage(w, text), text)))

sendMessage(w, text) ==
    IF Trim(text) = <<>> THEN w
    ELSE startThinking(vadReset(wsSendMessage(addUserMessage(w, text), text)))

toggleHandsFree(w) == toggle(w)

handleVoiceTranscript(w, transcript, isFinal) ==
    LET w1 == IF ~isFinal THEN onUserSpeechStart(w) ELSE w
    IN  IF w1.ctl.config.enableVAD THEN onSpeech(w1, transcript, isFinal) ELSE w1

handleAISpeakingChange(w, speaking) ==
    LET w1 == setAISpeaking(w, speaking)
    IN  IF speaking THEN startSpeaking(w1) ELSE onAIFinishedSpeaking(w1)

updateConfig(w, config) ==
    LET w1 == [w EXCEPT !.ctl.config = MergeConfig(@, config)]
        w2 == IF "enableVAD" \in DOMAIN config
              THEN vadUpdateConfig(w1, [enabled |-> config.enableVAD]) ELSE w1
        w3 == IF "enableBargeIn" \in DOMAIN config
              THEN setEnabled(w2, config.enableBargeIn) ELSE w2
    IN  IF "vadSilenceThreshold" \in DOMAIN config
        THEN vadUpdateConfig(w3, [silenceThreshold |-> config.vadSilenceThreshold]) ELSE w3

destroy(w) == vadDestroy(hfDestroy(stopRecording(w)))

\* What a task of the controller leaves in ev.pre.
CtlPre ==
    [isRecording |-> ctl.isRecording, state |-> sm.currentState,
     messages |-> asm.messages, text |-> vad.accumulatedText, vadTimer |-> vadTimer,
     isConnected |-> isConnected(World), isPlaying |-> tts.isPlaying,
     waiting |-> Len(tts.synthesisQueue) + Len(tts.audioQueue), enabled |-> hf.config.enabled]

\* A method of the controller is called.
Method(w, quiet) == [w EXCEPT !.ctl.quiet = quiet]

Budget == ctl.steps < MaxCtlSteps

CtlStartRecording ==
    /\ Budget
    /\ Commit(Method(startRecording(World, FALSE), FALSE), "startRecording", <<>>, CtlPre)

CtlStopRecording ==
    /\ Budget
    /\ Commit(Method(RunMicrotasks(stopRecording(World)), ctl.isRecording \/ ctl.quiet),
              "stopRecording", <<>>, CtlPre)

CtlSendMessage ==
    /\ Budget
    /\ \E text \in {<<"a">>, <<" ">>, <<>>} :
           Commit(Method(RunMicrotasks(sendMessage(World, text)), FALSE),
                  "ctl.sendMessage", <<text>>, CtlPre)

CtlSendFrame ==
    /\ Budget
    /\ Commit(Method(ctlSendFrame(World, "f"), FALSE), "ctl.sendFrame", <<"f">>, CtlPre)

CtlToggleHandsFree ==
    /\ Budget
    /\ Commit(Method(toggleHandsFree(World), FALSE), "toggleHandsFree", <<>>, CtlPre)

CtlUpdateConfig ==
    /\ Budget
    /\ \E config \in CtlConfigs :
           Commit(Method(updateConfig(World, config), FALSE), "updateConfig", <<config>>, CtlPre)

CtlDestroy ==
    /\ Budget
    /\ Commit(Method(RunMicrotasks(destroy(World)), ctl.isRecording \/ ctl.quiet),
              "destroy", <<>>, CtlPre)

NoEvent == [op |-> "init", arg |-> <<>>, pre |-> <<>>, calls |-> <<>>]

\* The state after construction of every object.
InitAll ==
    /\ sm = SmInit
    /\ smTimers = 0
    /\ tts = TtsInit
    /\ synth = <<>>
    /\ loops = {}
    /\ media = <<>>
    /\ ttsLog = TtsLogInit
    /\ asm = AsmInit
    /\ asmLog = AsmLogInit
    /\ barge = BargeInit
    /\ vad = VadInit
    /\ vadTimer = FALSE
    /\ vadLog = VadLogInit
    /\ ws = WsInit
    /\ net = NetInit
    /\ wsLog = WsLogInit
    /\ voice = VoiceInit
    /\ speech = SpeechInit
    /\ hf = HfInit
    /\ hfTimer = 0
    /\ ctl = CtlInit
    /\ ev = NoEvent

\* The objects as constructed, as a world record.
InitWorld ==
    [sm |-> SmInit, smTimers |-> 0,
     tts |-> TtsInit, synth |-> <<>>, loops |-> {}, media |-> <<>>, ttsLog |-> TtsLogInit,
     asm |-> AsmInit, asmLog |-> AsmLogInit, barge |-> BargeInit,
     vad |-> VadInit, vadTimer |-> FALSE, vadLog |-> VadLogInit,
     ws |-> WsInit, net |-> NetInit, wsLog |-> WsLogInit,
     voice |-> VoiceInit, speech |-> SpeechInit, hf |-> HfInit, hfTimer |-> 0, ctl |-> CtlInit,
     calls |-> <<>>]

\* The state in which the variables hold the objects of w.
InitFrom(w) ==
    /\ sm = w.sm
    /\ smTimers = w.smTimers
    /\ tts = w.tts
    /\ synth = w.synth
    /\ loops = w.loops
    /\ media = w.media
    /\ ttsLog = w.ttsLog
    /\ asm = w.asm
    /\ asmLog = w.asmLog
    /\ barge = w.barge
    /\ vad = w.vad
    /\ vadTimer = w.vadTimer
    /\ vadLog = w.vadLog
    /\ ws = w.ws
    /\ net = w.net
    /\ wsLog = w.wsLog
    /\ voice = w.voice
    /\ speech = w.speech
    /\ hf = w.hf
    /\ hfTimer = w.hfTimer
    /\ ctl = w.ctl
    /\ ev = NoEvent

InitSM == InitAll

NextSM ==
    \/ SmTransition
    \/ SmStartListening
    \/ SmStartThinking
    \/ SmStartSpeaking
    \/ SmStop
    \/ SmInterrupt
    \/ SmInterruptTimeout
    \/ SmAddListener
    \/ SmRemoveListener

SpecSM == InitSM /\ [][NextSM]_vars

InitLongRun == InitAll

NextLongRun == SmLongRunTransition

SpecLongRun == InitLongRun /\ [][NextLongRun]_vars

InitTTS == InitAll

NextTTS ==
    \/ TtsPlay
    \/ TtsStop
    \/ TtsSynthesisDone
    \/ TtsPlayStarted
    \/ TtsPlayRejected
    \/ TtsAudioEnded
    \/ TtsAudioError

SpecTTS == InitTTS /\ [][NextTTS]_vars

InitAsm == InitAll

NextAsm ==
    \/ AsmHandleMessage
    \/ AsmAddUserMessage
    \/ AsmClearMessages

SpecAsm == InitAsm /\ [][NextAsm]_vars

InitBarge == InitAll

NextBarge ==
    \/ BargeSetAISpeaking
    \/ BargeSetEnabled
    \/ BargeSetInterruptCallback
    \/ BargeOnUserSpeechStart
    \/ BargeTtsPlay
    \/ TtsSynthesisDone
    \/ TtsPlayStarted
    \/ TtsAudioEnded

SpecBarge == InitBarge /\ [][NextBarge]_vars

InitVAD == InitAll

NextVAD ==
    \/ VadOnSpeech
    \/ VadSilenceTimeout
    \/ VadReset
    \/ VadSetAutoSendCallback
    \/ VadUpdateConfig
    \/ VadDestroy

SpecVAD == InitVAD /\ [][NextVAD]_vars

InitWS == InitAll

NextWS ==
    \/ WsConnect
    \/ WsDisconnect
    \/ WsReconnectTimeout
    \/ WsHeartbeatTick
    \/ WsHeartbeatTimeout
    \/ WsSockOpen
    \/ WsSockClose
    \/ WsSockMessage
    \/ WsSendMessage
    \/ WsSendFrame
    \/ WsEndSession

SpecWS == InitWS /\ [][NextWS]_vars

\* The HandsFreeService constructed on a state machine and a voice service.
InitHF == InitFrom(hfConstructor(InitWorld))

NextHF ==
    \/ HfEnable
    \/ HfDisable
    \/ HfToggle
    \/ HfUpdateConfig
    \/ HfOnAIFinishedSpeaking
    \/ HfResumeTimeout
    \/ HfDestroy
    \/ VoiceOnStart
    \/ VoiceOnEnd
    \/ VoiceOnResult
    \/ VoiceOnError
    \/ VoiceRestartTimeout
    \/ SmStartListening
    \/ SmStartThinking
    \/ SmStartSpeaking
    \/ SmInterrupt
    \/ SmInterruptTimeout

SpecHF == InitHF /\ [][NextHF]_vars

\* The controller as constructed, with the default configuration or with
\* hands-free enabled.
InitCtl == \E config \in {<<>>, [enableHandsFree |-> TRUE]} : InitFrom(constructor(InitWorld, config))

NextCtl ==
    \/ CtlStartRecording
    \/ CtlStopRecording
    \/ CtlSendMessage
    \/ CtlSendFrame
    \/ CtlToggleHandsFree
    \/ CtlUpdateConfig
    \/ CtlDestroy
    \/ Budget /\ VoiceOnStart
    \/ Budget /\ VoiceOnEnd
    \/ Budget /\ VoiceOnResult
    \/ Budget /\ VoiceRestartTimeout
    \/ Budget /\ VadSilenceTimeout
    \/ Budget /\ SmInterruptTimeout
    \/ Budget /\ HfResumeTimeout
    \/ Budget /\ WsSockOpen
    \/ Budget /\ WsSockClose
    \/ Budget /\ WsSockMessage
    \/ Budget /\ WsReconnectTimeout
    \/ Budget /\ WsHeartbeatTick
    \/ Budget /\ WsHeartbeatTimeout
    \/ Budget /\ TtsSynthesisDone
    \/ Budget /\ TtsPlayStarted
    \/ Budget /\ TtsAudioEnded

SpecCtl == InitCtl /\ [][NextCtl]_vars



(***************************************************************************)
(* Claims on the TTS queue.                                                *)
(***************************************************************************)
StrictlyIncreasing(s) == \A k \in 1..(Len(s) - 1) : s[k] < s[k + 1]

Before(s, k) == {s[n] : n \in 1..(k - 1)}

C2_StopCancelsAll ==
    /\ ttsLog.late = {}
    /\ ev.op = "ttsStop" => ~isSpeaking(World)

\* C11 (as claimed): with no stop(), once every synthesis has ended, every
\* item whose synthesis succeeded has been promoted to the play-ready queue,
\* also when the synthesis of an item before it failed, and nothing is left
\* in the pending-synthesis queue.
C11_FailureDoesNotStall ==
    (~ttsLog.stopped /\ \A i \in 1..Len(synth) : synth[i].st # "pending") =>
        /\ \A i \in 1..Len(synth) :
               synth[i].st = "ok" => \E k \in 1..Len(ttsLog.promoted) : ttsLog.promoted[k] = i
        /\ tts.synthesisQueue = <<>>

\* C35 (as claimed): the items submitted after the latest stop() start
\* playing in submission order, and at most one activation of the promotion
\* loop is suspended at any time.
C35_OrderSurvivesStop ==
    /\ StrictlyIncreasing(SelectSeq(ttsLog.played, LAMBDA i : i \notin ttsLog.stale))
    /\ Cardinality(loops) <= 1

\* The audio elements whose play() was called and that have neither ended,
\* failed nor been paused.
Sounding == {i \in 1..Len(media) : media[i] \in {"starting", "playing"}}

\* C31, the part on the empty play-ready queue: a task that ends or fails
\* the current element and finds the queue empty leaves the service idle and
\* has reported false through the status callback, if one is set.  Holds.
C31_IdleWhenQueueEmpty ==
    (/\ ev.op \in {"audioEnded", "audioError", "playRejected"}
     /\ ev.pre.queued = 0 /\ tts.audioQueue = <<>> /\ Sounding = {}) =>
        /\ ~isSpeaking(World)
        /\ tts.onStatusChange # "none" =>
               \E i \in 1..Len(ev.calls) :
                   ev.calls[i] = <<"onStatusChange", tts.onStatusChange, FALSE>>

\* C31 (as claimed): at most one audio element is started or playing at any
\* time, and the service goes idle when the play-ready queue is found empty.
C31_OneAtATime ==
    /\ Cardinality(Sounding) <= 1
    /\ C31_IdleWhenQueueEmpty

\* C31 restricted to the histories without stop().
C31_OneAtATimeWithoutStop ==
    ~ttsLog.stopped => Cardinality(Sounding) <= 1

(***************************************************************************)
(* Claims on the streaming message assembler.                              *)
(***************************************************************************)
RECURSIVE Flatten(_)
Flatten(ss) == IF ss = <<>> THEN <<>> ELSE Head(ss) \o Flatten(Tail(ss))

\* C3: while the chunks of one turn arrive, they are all in one assistant
\* message, the last one, whose content is the concatenation of their
\* contents in arrival order.
C3_ChunksConcatenate ==
    asmLog.turn # <<>> =>
        /\ Len(asm.messages) = asmLog.base + 1
        /\ asm.messages[Len(asm.messages)].role = "assistant"
        /\ asm.messages[Len(asm.messages)].streaming
        /\ asm.messages[Len(asm.messages)].content = Flatten(asmLog.turn)

\* C3 witness: a turn of three chunks after an earlier message.
C3_Witness ==
    /\ asmLog.turn = << <<"a">>, <<" ">>, <<"b">> >>
    /\ asmLog.base = 1
    /\ asm.messages[2].content = <<"a", " ", "b">>

C23_CompleteClosesMessage ==
    (ev.op = "handleMessage" /\ ev.arg[1] = "ai_complete") =>
        \A i \in 1..Len(asm.messages) : ~asm.messages[i].streaming

\* The snapshots the step handed to onMessagesUpdate.
Snapshots(calls) == SelectSeq(calls, LAMBDA c : c[1] = "onMessagesUpdate")

\* C24 (as claimed): a step that changes the message list calls the snapshot
\* callback once, with the whole list in insertion order, and unless the
\* step is clearMessages() the snapshot delivered before it still reads as
\* it did when it was delivered.
C24_SnapshotsAreStable ==
    [][asm'.messages # asm.messages =>
           /\ Len(Snapshots(ev'.calls)) = 1
           /\ Snapshots(ev'.calls)[1][2] = asm'.messages
           /\ ev'.op # "clearMessages" =>
                  ReadSnapshot(SnapshotRefs(World), asm'.messages) = asm.messages]_vars

\* C24, the part on the callback alone: holds.
C24_SnapshotPerMutation ==
    [][asm'.messages # asm.messages =>
           /\ Len(Snapshots(ev'.calls)) = 1
           /\ Snapshots(ev'.calls)[1][2] = asm'.messages]_vars

IsPrefix(s, t) == Len(s) <= Len(t) /\ SubSeq(t, 1, Len(s)) = s

\* C25: a step other than clearMessages() keeps every message in its place:
\* the list does not get shorter, each message keeps its role, a finished
\* message (one that is not streaming) is left as it is, and a streaming one
\* keeps the content it had as the beginning of its content.
C25_MessagesOnlyGrow ==
    [][ev'.op # "clearMessages" =>
           /\ Len(asm'.messages) >= Len(asm.messages)
           /\ \A i \in 1..Len(asm.messages) :
                  /\ asm'.messages[i].role = asm.messages[i].role
                  /\ IsPrefix(asm.messages[i].content, asm'.messages[i].content)
                  /\ ~asm.messages[i].streaming => asm'.messages[i] = asm.messages[i]]_vars

\* C25 witness: a second chunk was appended to the streaming message behind
\* a finished user message, which reads as before.
C25_Witness ==
    /\ ev.op = "handleMessage" /\ ev.arg[1] = "ai_chunk"
    /\ Len(asmLog.turn) = 2
    /\ Len(asm.messages) = 2
    /\ asm.messages[1] = Message("user", <<"a">>, FALSE, "none")
    /\ asm.messages[2].streaming /\ Len(asm.messages[2].content) = 2

\* The positions of the messages that are streaming.
StreamingAt == {i \in 1..Len(asm.messages) : asm.messages[i].streaming}

\* C36 (as claimed): at most one message is streaming, and it is the last
\* message of the list, after any sequence of chunks, completions, regular
\* messages and user messages.
C36_OneStreamingAtTheEnd ==
    /\ Cardinality(StreamingAt) <= 1
    /\ StreamingAt \subseteq {Len(asm.messages)}

(***************************************************************************)
(* Claims on the VAD.                                                      *)
(***************************************************************************)
\* C7 (as claimed): the buffer is the concatenation of the final transcripts
\* in arrival order; when the silence timer elapses over buffered
\* transcripts, the auto-send callback is invoked once with that
\* concatenation and the buffer is empty afterwards.
C7_AutoSendConcatenation ==
    /\ vad.accumulatedText = Flatten(vadLog.fed)
    /\ (ev.op = "silenceTimeout" /\ ev.pre.fed # <<>> /\ ev.pre.onAutoSend # "null") =>
            /\ ev.calls = << <<"onAutoSend", Flatten(ev.pre.fed)>> >>
            /\ vad.accumulatedText = <<>>
            /\ ~vadTimer

\* C7 (amended): the buffer is the concatenation of the final transcripts in
\* arrival order, without separator; when the silence timer elapses and the
\* concatenation, trimmed of white space, has at least minTextLength
\* characters, the auto-send callback is invoked once with the trimmed
\* concatenation, the buffer is empty afterwards and no timer is pending;
\* when it is shorter, the callback is not invoked and the buffer is kept.
C7_AutoSendTrimmedConcatenation ==
    /\ vad.accumulatedText = Flatten(vadLog.fed)
    /\ (ev.op = "silenceTimeout" /\ ev.pre.onAutoSend # "null") =>
            IF Len(Trim(Flatten(ev.pre.fed))) >= ev.pre.config.minTextLength
            THEN /\ ev.calls = << <<"onAutoSend", Trim(Flatten(ev.pre.fed))>> >>
                 /\ vad.accumulatedText = <<>>
                 /\ ~vadTimer
            ELSE /\ ev.calls = <<>>
                 /\ vad.accumulatedText = Flatten(ev.pre.fed)
                 /\ ~vadTimer

\* C7 witness: two final transcripts were buffered, then the silence timer
\* elapsed and their concatenation was sent.
C7_Witness ==
    /\ ev.op = "silenceTimeout"
    /\ ev.pre.fed = << <<"a">>, <<"b", "c">> >>
    /\ ev.calls = << <<"onAutoSend", <<"a", "b", "c">> >> >>
    /\ vad.accumulatedText = <<>>

\* C26 (as claimed): when the silence timer elapses, the auto-send callback
\* is invoked with the trimmed buffer and the buffer is emptied if the
\* trimmed buffer is longer than minTextLength; otherwise no callback is
\* invoked.
C26_SendWhenLonger ==
    (ev.op = "silenceTimeout" /\ ev.pre.onAutoSend # "null") =>
        IF Len(Trim(ev.pre.text)) > ev.pre.config.minTextLength
        THEN /\ ev.calls = << <<"onAutoSend", Trim(ev.pre.text)>> >>
             /\ vad.accumulatedText = <<>>
        ELSE ev.calls = <<>>

\* C26 (amended): when the silence timer elapses and the trimmed buffer has
\* at least minTextLength characters, the buffer is emptied and the
\* auto-send callback, if one is set, is invoked once with the trimmed
\* buffer; when the trimmed buffer is shorter, no callback is invoked and the
\* buffer is kept.
C26_SendWhenAtLeast ==
    ev.op = "silenceTimeout" =>
        IF Len(Trim(ev.pre.text)) >= ev.pre.config.minTextLength
        THEN /\ ev.calls = IF ev.pre.onAutoSend = "null" THEN <<>>
                           ELSE << <<"onAutoSend", Trim(ev.pre.text)>> >>
             /\ vad.accumulatedText = <<>>
        ELSE /\ ev.calls = <<>>
             /\ vad.accumulatedText = ev.pre.text

\* C26 witness: the timer elapsed over a buffer of exactly minTextLength
\* characters, which was sent.
C26_Witness ==
    /\ ev.op = "silenceTimeout"
    /\ ev.pre.config.minTextLength = 2
    /\ ev.pre.text = <<"b", "c">>
    /\ ev.calls = << <<"onAutoSend", <<"b", "c">> >> >>
    /\ vad.accumulatedText = <<>>

\* The last task called the auto-send callback.
AutoSent(calls) == \E i \in 1..Len(calls) : calls[i][1] = "onAutoSend"

\* C33 (as claimed): an interim transcript leaves the buffer as it was and
\* leaves exactly one silence timer pending, set by itself; never more than
\* one timer is pending; and when the timer elapses and the text is sent, no
\* transcript was passed to the VAD since the timer was set.
C33_InterimRestartsTimer ==
    [][/\ (ev'.op = "onSpeech" /\ ~ev'.arg[2]) =>
              /\ vad'.accumulatedText = vad.accumulatedText
              /\ vadTimer' /\ vadLog'.pending = 1 /\ vadLog'.fresh
       /\ vadLog'.pending <= 1
       /\ (ev'.op = "silenceTimeout" /\ AutoSent(ev'.calls)) => vadLog.fresh]_vars

\* C33 (amended): an interim transcript leaves the buffer as it was; passed
\* to an enabled VAD it leaves exactly one silence timer pending, set by
\* itself, and passed to a disabled VAD it leaves the timer as it was; never
\* more than one timer is pending, and the timer that elapses is the only one.
C33_InterimRestartsTimerWhenEnabled ==
    [][/\ (ev'.op = "onSpeech" /\ ~ev'.arg[2]) =>
              /\ vad'.accumulatedText = vad.accumulatedText
              /\ IF vad.config.enabled
                 THEN vadTimer' /\ vadLog'.pending = 1 /\ vadLog'.fresh
                 ELSE /\ vadTimer' = vadTimer /\ vadLog'.pending = vadLog.pending
                      /\ vad'.silenceTimer = vad.silenceTimer
       /\ vadLog'.pending <= 1
       /\ ev'.op = "silenceTimeout" => vadLog'.pending = 0]_vars

\* C33 witness: an interim transcript arrived at the enabled VAD over a
\* buffered text with the timer pending; the text is as it was and the timer
\* is pending.
C33_Witness ==
    /\ ev.op = "onSpeech" /\ ev.arg = << <<"b", "c">>, FALSE >>
    /\ ev.pre.config.enabled /\ ev.pre.timer
    /\ ev.pre.text = <<"a">> /\ vad.accumulatedText = <<"a">>
    /\ vadTimer /\ vadLog.pending = 1

(***************************************************************************)
(* Claims on the barge-in detector.                                        *)
(***************************************************************************)
BargeCalls(calls) == SelectSeq(calls, LAMBDA c : c[1] \in {"tts.stop", "onInterrupt"})

\* C4: onUserSpeechStart() stops the TTS and then invokes the interrupt
\* callback, once, exactly when the detector is enabled and the AI-speaking
\* flag is set; the callback runs with the TTS already stopped and the flag
\* is clear afterwards, so that a further call fires nothing.  Otherwise
\* neither stop() nor the callback is invoked and nothing changes.
C4_BargeInFiresOnce ==
    ev.op = "onUserSpeechStart" =>
        IF ev.pre.enabled /\ ev.pre.isAISpeaking
        THEN /\ BargeCalls(ev.calls) =
                    IF ev.pre.onInterrupt = "none" THEN << <<"tts.stop">> >>
                    ELSE << <<"tts.stop">>, <<"onInterrupt", FALSE>> >>
             /\ ~barge.isAISpeaking
             /\ ~isSpeaking(World)
        ELSE /\ ev.calls = <<>>
             /\ barge.isAISpeaking = ev.pre.isAISpeaking
             /\ isSpeaking(World) = ev.pre.isPlaying

\* C4 witness: the user starts speaking while audio plays, the flag is set
\* and the detector is enabled; the callback has run.
C4_Witness ==
    /\ ev.op = "onUserSpeechStart"
    /\ ev.pre.enabled /\ ev.pre.isAISpeaking /\ ev.pre.isPlaying
    /\ BargeCalls(ev.calls) = << <<"tts.stop">>, <<"onInterrupt", FALSE>> >>

(***************************************************************************)
(* Claims on the transport.                                                *)
(***************************************************************************)
Scheduled(calls) == SelectSeq(calls, LAMBDA c : c[1] = "setTimeout" /\ c[2] = "reconnect")

\* C9: when a socket closes and the close was not asked for by
\* disconnect(), with k reconnect attempts made since the last open (or
\* since construction) and k below the maximum, one reconnect is scheduled,
\* with the delay min(1000 * 2^k, 30000); an open event sets k to 0.
C9_BackoffDelay ==
    (ev.op = "onclose" /\ ~ev.pre.isIntentionalClose /\ ev.pre.k < ws.maxReconnectAttempts) =>
        /\ Scheduled(ev.calls) = << <<"setTimeout", "reconnect", Min(1000 * 2^ev.pre.k, 30000)>> >>
        /\ net.reconnect = [pending |-> TRUE, delay |-> Min(1000 * 2^ev.pre.k, 30000)]

\* C9 witness: a socket has closed after five failed attempts and the
\* reconnect is scheduled with the limit of 30000 ms, 32000 being above it.
C9_Witness ==
    /\ ev.op = "onclose"
    /\ ~ev.pre.isIntentionalClose
    /\ ev.pre.k = 5
    /\ net.reconnect = [pending |-> TRUE, delay |-> 30000]

\* C10 (as claimed): once the maximum number of reconnect attempts has been
\* made without an open, no reconnect is scheduled.
C10_NoReconnectAfterExhaustion ==
    wsLog.k >= ws.maxReconnectAttempts => ~net.reconnect.pending

\* The messages passed to the registered callback by the last task.
Forwarded(calls) == SelectSeq(calls, LAMBDA c : c[1] = "onMessage")

\* C14 (as claimed): a pong is never passed to the message callback; every
\* other inbound message that parses is passed to it once, unchanged, within
\* the task of its arrival.
C14_ForwardAllParsed ==
    ev.op = "onmessage" =>
        Forwarded(ev.calls) =
            IF ev.arg[1] # "pong" /\ Parses(ev.arg[1])
            THEN << <<"onMessage", ev.arg[1]>> >> ELSE <<>>

\* C14 (amended): a pong is never passed to the message callback; every
\* other inbound message that parses to a value other than null is passed
\* to it once, unchanged, within the task of its arrival; a message that
\* parses to null is not passed.
C14_ForwardAllParsedButNull ==
    ev.op = "onmessage" =>
        Forwarded(ev.calls) =
            IF ev.arg[1] # "pong" /\ Parses(ev.arg[1]) /\ ev.arg[1] # "null"
            THEN << <<"onMessage", ev.arg[1]>> >> ELSE <<>>

\* C14 witness: an AI message arrived and was passed to the callback.
C14_Witness ==
    /\ ev.op = "onmessage"
    /\ ev.arg = <<"ai_message">>
    /\ ev.calls = << <<"onMessage", "ai_message">> >>

\* The sockets, connecting or open, whose handlers deliver to the callback.
Delivering(n) ==
    n.stale.connecting + n.stale.open + (IF n.cur \in {"connecting", "open"} THEN 1 ELSE 0)

\* C15 (as claimed): when connect() is never called on an instance that
\* holds a socket or a pending reconnect, at most one socket, connecting or
\* open, delivers messages to the callback.
C15_OneConnection ==
    ~wsLog.overlap => Delivering(net) <= 1

\* C16: from disconnect() until the next connect(), no reconnect is pending
\* or scheduled, no ping is sent and this.ws is null; disconnect() leaves
\* neither the heartbeat interval nor the heartbeat timeout of the handle
\* pending; a close event in that period schedules nothing.
C16_DisconnectedIsQuiet ==
    wsLog.closed =>
        /\ ~net.reconnect.pending
        /\ ws.reconnectTimer = "null"
        /\ ws.ws = "null"
        /\ Scheduled(ev.calls) = <<>>
        /\ \A i \in 1..Len(ev.calls) : ev.calls[i][1] # "send"
        /\ ev.op = "disconnect" => (~net.interval /\ ~net.timeout)

\* C16 witness: the close event of the socket closed by disconnect()
\* arrived, attempts being left, and no reconnect is pending.
C16_Witness ==
    /\ wsLog.closed
    /\ ev.op = "onclose"
    /\ ev.arg = <<"stale">>
    /\ ev.pre.reconnectAttempts < ws.maxReconnectAttempts
    /\ ~net.reconnect.pending

\* C17 (as claimed): while the connection is open, the heartbeat interval
\* is running, so that a ping is sent on every interval.
C17_HeartbeatWhileConnected ==
    (~wsLog.overlap /\ isConnected(World)) => net.interval

SendOps == {"sendMessage", "sendFrame", "endSession"}

\* The frames handed to the socket by the last task, pings apart.
Sent(calls) == SelectSeq(calls, LAMBDA c : c[1] = "send" /\ c[2] # "ping")

\* C18: sendMessage, sendFrame or endSession hands its message to the socket
\* once when the connection is open, and otherwise hands over nothing; in
\* both cases it leaves the state of the transport as it was; no other task
\* hands over anything but a ping, so that nothing is sent later.
C18_AtMostOnce ==
    [][/\ ev'.op \in SendOps =>
            /\ ws' = ws /\ net' = net
            /\ Len(Sent(ev'.calls)) = (IF isConnected(World) THEN 1 ELSE 0)
            /\ ev'.calls = Sent(ev'.calls)
       /\ ev'.op \notin SendOps => Sent(ev'.calls) = <<>>]_vars

\* C18 witness: sendMessage() was called while the socket was closed and a
\* reconnect was pending, and nothing was handed to a socket.
C18_Witness ==
    /\ ev.op = "sendMessage"
    /\ ~ev.pre.isConnected
    /\ net.reconnect.pending
    /\ ev.calls = <<>>

(***************************************************************************)
(* Claims on the hands-free service.                                       *)
(***************************************************************************)
\* C19 (as claimed): after disable(), or toggle(), called with hands-free
\* enabled, the speech recognition is neither starting nor running, the
\* voice service is not enabled, no resume timer is pending and the state
\* machine is in Idle.
C19_DisableStopsEverything ==
    (ev.op \in {"disable", "toggle"} /\ ev.pre.enabled) =>
        /\ speech.state \notin {"starting", "running"}
        /\ ~voice.isEnabled
        /\ hfTimer = 0
        /\ sm.currentState = IDLE

\* The callback of the resume timer: with hands-free enabled the state
\* machine is in Listening afterwards, otherwise nothing has happened.
ResumeTimerElapsed ==
    ev.op = "resumeTimeout" =>
        IF ev.pre.enabled THEN sm.currentState = LISTENING
        ELSE sm.currentState = ev.pre.state /\ ev.calls = <<>>

\* C20 (as claimed): onAIFinishedSpeaking() with hands-free enabled leaves
\* exactly one resume timer pending, and with hands-free disabled it
\* schedules nothing; the timer, when it elapses, moves the state machine to
\* Listening if hands-free is enabled then, and does nothing otherwise.
C20_ResumeWhenEnabled ==
    /\ ev.op = "onAIFinishedSpeaking" =>
            IF ev.pre.enabled
            THEN hfTimer = 1 /\ ev.calls = << <<"setTimeout", "resume", 300>> >>
            ELSE hfTimer = ev.pre.timers /\ ev.calls = <<>>
    /\ ResumeTimerElapsed

\* C20 (amended): onAIFinishedSpeaking() with hands-free enabled and
\* autoResumeAfterAI on leaves exactly one resume timer pending, of 300 ms;
\* with hands-free disabled or autoResumeAfterAI off it schedules nothing
\* and clears nothing; the timer, when it elapses, moves the state machine
\* to Listening if hands-free is enabled then, and does nothing otherwise.
C20_ResumeWhenEnabledAndAutoResume ==
    /\ ev.op = "onAIFinishedSpeaking" =>
            IF ev.pre.enabled /\ ev.pre.autoResumeAfterAI
            THEN hfTimer = 1 /\ ev.calls = << <<"setTimeout", "resume", 300>> >>
            ELSE hfTimer = ev.pre.timers /\ ev.calls = <<>>
    /\ ResumeTimerElapsed

\* C20 witness: onAIFinishedSpeaking() was called with a resume timer
\* pending, and one timer is pending.
C20_Witness ==
    /\ ev.op = "onAIFinishedSpeaking"
    /\ ev.pre.enabled /\ ev.pre.autoResumeAfterAI
    /\ ev.pre.timers = 1
    /\ hfTimer = 1

Unrecoverable == {"audio-capture", "not-allowed"}

\* C28: an end event, and an error other than no-speech and the
\* unrecoverable ones, schedule one restart exactly when the enabled flag is
\* set; when the restart timer elapses the recognition is started exactly
\* when the flag is set (and the recognition is idle), and is left alone
\* otherwise; an unrecoverable error calls onError once, clears the flag and
\* schedules no restart; and the recognition never goes to starting in a
\* step that leaves the flag clear, so only start() brings it back.
C28_RestartOnlyWhileEnabled ==
    [][/\ (ev'.op = "onend" \/ (ev'.op = "onerror"
                                   /\ ev'.arg[1] \notin Unrecoverable \cup {"no-speech"})) =>
              speech'.restarts = speech.restarts + (IF voice.isEnabled THEN 1 ELSE 0)
       /\ ev'.op = "restartTimeout" =>
              IF voice.isEnabled /\ ~voice.isListening /\ speech.state = "idle"
              THEN speech'.state = "starting"
              ELSE speech'.state = speech.state
       /\ (ev'.op = "onerror" /\ ev'.arg[1] \in Unrecoverable) =>
              /\ ~voice'.isEnabled
              /\ speech'.restarts = speech.restarts
              /\ ev'.calls = IF voice.onErrorCallback = "null" THEN <<>>
                             ELSE << <<"onError", ev'.arg[1]>> >>
       /\ (speech'.state = "starting" /\ speech.state # "starting") => voice'.isEnabled]_vars

\* C28 witness: the running recognition reported not-allowed: onError was
\* called once, the flag is clear and no restart is scheduled.
C28_Witness ==
    /\ ev.op = "onerror" /\ ev.arg = <<"not-allowed">>
    /\ ev.pre.speech = "running" /\ ev.pre.isListening
    /\ ev.calls = << <<"onError", "not-allowed">> >>
    /\ ~voice.isEnabled /\ speech.restarts = 0

\* The speech recognition is starting or running, or its restart is due.
Recognizing(v, sp) == sp.state \in {"starting", "running"} \/ (v.isEnabled /\ sp.restarts > 0)

\* C21 (as claimed): with hands-free enabled, after a transition into
\* Listening or Interrupted the recognition is active or started, and after
\* a transition into Thinking or Speaking it is stopped: the voice service
\* is not enabled and the recognition is neither starting nor running; with
\* hands-free disabled a transition leaves the voice service as it was.
C21_StateDrivesRecognition ==
    [][sm'.currentState # sm.currentState =>
            /\ (hf.config.enabled /\ hf'.config.enabled) =>
                   /\ sm'.currentState \in {LISTENING, INTERRUPTED} =>
                          (voice'.isEnabled \/ Recognizing(voice', speech'))
                   /\ sm'.currentState \in {THINKING, SPEAKING} =>
                          (~voice'.isEnabled /\ ~Recognizing(voice', speech'))
            /\ (~hf.config.enabled /\ ~hf'.config.enabled) =>
                   (voice' = voice /\ speech' = speech)]_vars

(***************************************************************************)
(* Claims on the controller.                                               *)
(***************************************************************************)
\* The calls of the last task that stop the speech, publish the messages,
\* hand a frame to the socket, and notify the controller of a transition.
Key(calls) ==
    SelectSeq(calls, LAMBDA c : \/ c[1] \in {"tts.stop", "onMessagesUpdate", "send"}
                                \/ (c[1] = "listener" /\ c[2] = "controller"))

\* What sendMessage(text) leaves, forwarded telling whether the message was
\* handed to the socket: the speech stopped, the user message appended, the
\* message forwarded, the VAD reset, the state machine in Thinking, in this
\* order; and for a blank text, nothing.
SendMessageDone(forwarded) ==
    IF Trim(ev.arg[1]) = <<>>
    THEN /\ ev.calls = <<>>
         /\ asm.messages = ev.pre.messages
         /\ sm.currentState = ev.pre.state
         /\ vad.accumulatedText = ev.pre.text /\ vadTimer = ev.pre.vadTimer
         /\ tts.isPlaying = ev.pre.isPlaying
         /\ Len(tts.synthesisQueue) + Len(tts.audioQueue) = ev.pre.waiting
    ELSE /\ Key(ev.calls) =
                << <<"tts.stop">>, <<"onMessagesUpdate", asm.messages>> >>
                \o (IF forwarded THEN << <<"send", "user_message", ev.arg[1]>> >> ELSE <<>>)
                \o (IF ev.pre.state # THINKING
                    THEN << <<"listener", "controller", THINKING, ev.pre.state>> >> ELSE <<>>)
         /\ asm.messages = Append(ev.pre.messages, Message("user", ev.arg[1], FALSE, "none"))
         /\ ~tts.isPlaying /\ tts.synthesisQueue = <<>> /\ tts.audioQueue = <<>>
         /\ vad.accumulatedText = <<>> /\ ~vadTimer /\ vad.silenceTimer = "null"
         /\ sm.currentState = THINKING

\* C12 (as claimed): sendMessage(text) with a text that is not blank stops
\* the speech of the TTS service, appends a finished user message, forwards
\* the message over the transport, resets the VAD and ends in Thinking, in
\* this order; with a blank text it changes nothing.
C12_SendMessageForwards ==
    ev.op = "ctl.sendMessage" => SendMessageDone(TRUE)

\* C12 (amended): as C12, the message being forwarded when the connection
\* is open, and not forwarded at all, then or later, when it is not.
C12_SendMessageForwardsWhenOpen ==
    ev.op = "ctl.sendMessage" => SendMessageDone(ev.pre.isConnected)

\* C12 witness: sendMessage("a") was called while the connection was open
\* and the AI was speaking.
C12_Witness ==
    /\ ev.op = "ctl.sendMessage"
    /\ ev.arg = << <<"a">> >>
    /\ ev.pre.isConnected /\ ev.pre.isPlaying /\ ev.pre.state = SPEAKING
    /\ sm.currentState = THINKING

TimerOps ==
    {"silenceTimeout", "resumeTimeout", "interruptTimeout", "restartTimeout",
     "reconnectTimeout", "heartbeatTick", "heartbeatTimeout"}

\* C13 (as claimed): after stopRecording() has returned and while no method
\* of the controller is called, a timer that elapses sends no message for
\* the user, publishes no message, hands nothing to the socket, and leaves
\* the state machine in Idle.
C13_StoppedIsQuiet ==
    (ctl.quiet /\ ev.op \in TimerOps) =>
        /\ sm.currentState = IDLE
        /\ \A i \in 1..Len(ev.calls) :
               ev.calls[i][1] \notin {"onAutoSend", "onMessagesUpdate", "send"}

\* C29 (as claimed): with barge-in enabled, an interim transcript handed to
\* the controller while the TTS service is playing stops the playback and
\* takes the state machine to Interrupted, and the timer of the interrupt
\* then takes it from Interrupted to Listening.
C29_BargeInStopsPlayback ==
    [][/\ (/\ ev'.op = "onresult" /\ ~ev'.arg[2]
           /\ voice.onTranscriptCallback = "controller"
           /\ barge.enabled /\ isSpeaking(World)) =>
              (~tts'.isPlaying /\ sm'.currentState = INTERRUPTED)
       /\ (ev'.op = "interruptTimeout" /\ sm.currentState = INTERRUPTED) =>
              sm'.currentState = LISTENING]_vars

\* C30 (as claimed): after every step, the AI-speaking flag of the barge-in
\* detector is set if the TTS service is playing, and clear if the step took
\* the TTS service from playing to not playing.
C30_FlagFollowsPlayback ==
    [][/\ tts'.isPlaying => barge'.isAISpeaking
       /\ (tts.isPlaying /\ ~tts'.isPlaying) => ~barge'.isAISpeaking]_vars

\* C30 for audio of the regular-message path alone (the status callback of
\* the TTS service is the one playTTS registers): holds.
C30_FlagFollowsRegularPlayback ==
    [][(tts.onStatusChange # "noop" /\ tts'.onStatusChange # "noop") =>
           /\ tts'.isPlaying => barge'.isAISpeaking
           /\ (tts.isPlaying /\ ~tts'.isPlaying) => ~barge'.isAISpeaking]_vars

\* C27 (as claimed): when destroy() returns, the controller is not recording,
\* the transport is disconnected and the voice service is not enabled,
\* hands-free is disabled with no resume timer pending, the VAD buffer is
\* empty with no silence timer pending and no auto-send callback, and the
\* TTS service is not playing and both its queues are empty.
C27_DestroyStopsEverything ==
    ev.op = "destroy" =>
        /\ ~ctl.isRecording
        /\ ~isConnected(World) /\ ws.ws = "null"
        /\ ~voice.isEnabled
        /\ ~hf.config.enabled /\ hfTimer = 0
        /\ vad.accumulatedText = <<>> /\ ~vadTimer /\ vad.onAutoSend = "null"
        /\ ~isSpeaking(World)
        /\ tts.synthesisQueue = <<>> /\ tts.audioQueue = <<>>

\* C27, without the part on the TTS service: holds.
C27_DestroyStopsAllButTTS ==
    ev.op = "destroy" =>
        /\ ~ctl.isRecording
        /\ ~isConnected(World) /\ ws.ws = "null"
        /\ ~voice.isEnabled
        /\ ~hf.config.enabled /\ hfTimer = 0
        /\ vad.accumulatedText = <<>> /\ ~vadTimer /\ vad.onAutoSend = "null"

\* C37 (as claimed): while recording is active, a transcript emitted by the
\* speech input service is handed to the controller's transcript handler,
\* also after the hands-free service has started the recognition.
C37_TranscriptsReachController ==
    [][(ev'.op = "onresult" /\ ctl.isRecording) =>
           voice.onTranscriptCallback = "controller"]_vars

\* C38 (as claimed): while the VAD is disabled by updateConfig, no auto-send
\* is triggered, also when a silence timer was pending over buffered
\* transcripts at the moment of disabling.
C38_NoAutoSendWhileDisabled ==
    [][(~ctl.config.enableVAD /\ ~vad.config.enabled) => ~AutoSent(ev'.calls)]_vars

\* C39 (as claimed): with hands-free enabled, the resume timer of the
\* hands-free service does not take the state machine from Thinking or from
\* Speaking to Listening, also when the timer was scheduled by the stop of
\* the TTS in sendMessage().
C39_ResumeLeavesThinking ==
    [][(ev'.op = "resumeTimeout" /\ sm.currentState \in {THINKING, SPEAKING}) =>
           sm'.currentState = sm.currentState]_vars

\* The TTS service has an item awaiting synthesis, queued for playback or
\* sounding.
TtsHasWork ==
    \/ tts.synthesisQueue # <<>>
    \/ \E i \in loops : synth[i].st = "pending"
    \/ tts.audioQueue # <<>>
    \/ Sounding # {}

\* C40 (as claimed): whenever the state machine is in Speaking, the TTS
\* service has an item awaiting synthesis, queued or playing, with hands-free
\* enabled or disabled.
C40_SpeakingMeansTtsBusy == sm.currentState = SPEAKING => TtsHasWork

(***************************************************************************)
(* Claims on the state machine.                                            *)
(***************************************************************************)
\* The listener invocations among the calls of the last task.
Notes(calls) == SelectSeq(calls, LAMBDA c : c[1] = "listener")

\* Every listener of ls invoked once, in registration order, with (n, p).
NotesFor(ls, n, p) == [i \in 1..Len(ls) |-> <<"listener", ls[i], n, p>>]

TransitionOps == {"transition", "startListening", "startThinking", "startSpeaking", "stop"}

\* C5: interrupt() outside Speaking changes nothing, notifies nobody and
\* schedules nothing; in Speaking it makes the one transition
\* Speaking -> Interrupted, notified once to every listener, and schedules
\* the timer; the timer, elapsing while the state is still Interrupted, makes
\* the one transition Interrupted -> Listening, notified once to every listener.
C5_InterruptTwoTransitions ==
    /\ (ev.op = "interrupt" /\ ev.pre.state # SPEAKING) =>
            /\ sm.currentState = ev.pre.state
            /\ sm.stateHistory = ev.pre.history
            /\ smTimers = ev.pre.timers
            /\ ev.calls = <<>>
    /\ (ev.op = "interrupt" /\ ev.pre.state = SPEAKING) =>
            /\ sm.currentState = INTERRUPTED
            /\ smTimers = ev.pre.timers + 1
            /\ Notes(ev.calls) = NotesFor(sm.listeners, INTERRUPTED, SPEAKING)
    /\ (ev.op = "interruptTimeout" /\ ev.pre.state = INTERRUPTED) =>
            /\ sm.currentState = LISTENING
            /\ smTimers = ev.pre.timers - 1
            /\ Notes(ev.calls) = NotesFor(sm.listeners, LISTENING, INTERRUPTED)

\* C5 witness: the timer of an interrupt() has elapsed in Interrupted, with
\* listeners registered, and the machine is in Listening.
C5_Witness ==
    /\ ev.op = "interruptTimeout"
    /\ ev.pre.state = INTERRUPTED
    /\ sm.currentState = LISTENING
    /\ Len(sm.listeners) = 2
    /\ Len(sm.stateHistory) >= 4

\* C6 (as claimed): while the timer of an interrupt() is pending, a step that
\* leaves Interrupted enters Listening, and no other state.
C6_InterruptedThenListening ==
    [][(sm.currentState = INTERRUPTED /\ smTimers > 0) =>
            sm'.currentState \in {INTERRUPTED, LISTENING}]_vars

\* C32: a task that changes the state has invoked every registered listener
\* once, in registration order, with the new and the previous state, also
\* the listeners registered behind one that throws; the error of each
\* throwing listener was logged and the state is the requested one.
C32_EveryListenerNotified ==
    (ev.op # "init" /\ sm.currentState # ev.pre.state) =>
        /\ Notes(ev.calls) = NotesFor(ev.pre.listeners, sm.currentState, ev.pre.state)
        /\ Len(SelectSeq(ev.calls, LAMBDA c : c[1] = "console.error")) =
               Len(SelectSeq(ev.pre.listeners, LAMBDA l : l = "bad"))
        /\ ev.op \in TransitionOps => sm.currentState = ev.arg[1]
        /\ sm.stateHistory[Len(sm.stateHistory)] = sm.currentState

\* C32 witness: a transition with a throwing listener registered in front of
\* another listener; both were invoked.
C32_Witness ==
    /\ ev.op = "startThinking"
    /\ ev.pre.state = LISTENING /\ sm.currentState = THINKING
    /\ ev.pre.listeners = <<"bad", "ok">>
    /\ Notes(ev.calls) = << <<"listener", "bad", THINKING, LISTENING>>,
                            <<"listener", "ok", THINKING, LISTENING>> >>

\* The last n entries of s.
LastN(s, n) == IF Len(s) <= n THEN s ELSE SubSeq(s, Len(s) - n + 1, Len(s))

\* C34: the history has between 1 and MAX_HISTORY entries, its last entry is
\* the current state, no two adjacent entries are equal, and it is the last
\* MAX_HISTORY states entered, oldest first, from the initial Idle on.
C34_HistoryIsRecentStates ==
    /\ Len(sm.stateHistory) \in 1..MAX_HISTORY
    /\ sm.stateHistory[Len(sm.stateHistory)] = sm.currentState
    /\ \A i \in 1..(Len(sm.stateHistory) - 1) : sm.stateHistory[i] # sm.stateHistory[i + 1]
    /\ sm.entered[1] = IDLE
    /\ sm.stateHistory = LastN(sm.entered, MAX_HISTORY)

\* C34 witness: more than MAX_HISTORY states were entered and the history
\* holds the last MAX_HISTORY of them.
C34_Witness ==
    /\ Len(sm.entered) = MAX_HISTORY + 2
    /\ Len(sm.stateHistory) = MAX_HISTORY
    /\ sm.stateHistory[1] = sm.entered[3]
    /\ sm.stateHistory[1] # IDLE

\* C8: a transition to the current state, by transition(S) or by one of
\* startListening, startThinking, startSpeaking, stop, notifies no listener
\* and leaves the current state and the history as they were.
C8_SameStateNoOp ==
    (ev.op \in TransitionOps /\ ev.arg[1] = ev.pre.state) =>
        /\ ev.calls = <<>>
        /\ sm.currentState = ev.pre.state
        /\ sm.stateHistory = ev.pre.history

\* C8 witness: startListening() called in Listening with a listener registered.
C8_Witness ==
    /\ ev.op = "startListening"
    /\ ev.pre.state = LISTENING
    /\ Len(sm.listeners) > 0
    /\ sm.currentState = LISTENING

=============================================================================
